---- MODULE Spec2Model ----
(***************************************************************************)
(* kamachess: the game-session protocol of the Telegram chess bot.         *)
(*                                                                         *)
(* The persistent state is the SQL tables users, games and moves.  Every   *)
(* inbound update is served by one handler of handlers/game_handler.rs;    *)
(* a handler is a sequence of SQL statements separated by .await points.   *)
(* Each action below is one such statement together with the local         *)
(* computation that follows it up to the next statement.                   *)
(*                                                                         *)
(*   Spec     webhook mode (server/mod.rs): every update is spawned as its *)
(*            own task, so the statements of different handlers interleave.*)
(*   SeqSpec  polling mode (main.rs): process_update is awaited before the *)
(*            next update is taken, so handlers run one at a time.         *)
(*                                                                         *)
(* The chess crate (Board, legal moves, status) is an external engine.  A  *)
(* position is represented by the sequence of moves that led to it from    *)
(* the initial position; the engine's side_to_move and status are computed *)
(* from that sequence.                                                     *)
(***************************************************************************)
EXTENDS Integers, Sequences, FiniteSets, TLC

\* ------------------------------------------------------------------------
\* Bounds of the model
\* ------------------------------------------------------------------------
MaxGames == 1      \* a /start is taken only while games holds fewer rows
MaxPly == 2        \* rows ever inserted into moves for one game
MaxVenueGames == 3 \* as MaxGames, for the sessions of VenueSpec
MaxMen == 3        \* legal moves of a position given to parse_move
MaxCalls == 4      \* calls of get_or_create
MaxRequests == 3   \* requests served by the webhook server

Procs == {1, 2}            \* handler tasks that may be in flight
TgUsers == {101, 102, 103} \* Telegram user ids of the humans writing
Chats == {-1}              \* chat ids
Starters == {101, 102}     \* the users who send /start, to each other
Venues == {-1, -2}         \* the chat ids of VenueSpec

NULL == 0                  \* SQL NULL of an integer column
NoResult == "null"         \* SQL NULL of games.result

VARIABLES users, games, moves, nextMessageId, pc, loc,
          position, input, outcome,
          dirExists, files, now, lastHit, call, threads,
          upsert, webhook, router

vars == <<users, games, moves, nextMessageId, pc, loc, position, input, outcome,
          dirExists, files, now, lastHit, call, threads,
          upsert, webhook, router>>

\* position, input  the arguments of a call of game::parse_move
\* outcome          the Result the call returned, NoOutcome before the call
resolverVars == <<position, input, outcome>>

\* dirExists  the directory images_cache exists
\* files      the .png files of the directory, by path: content and mtime
\* now        the time, one tick per call of game::cache::get_or_create
\* lastHit    per path, the time its file was last returned by a hit (0: never)
\* call       the last call of get_or_create: its arguments, what the
\*            environment let succeed, what it evicted and what it returned
\* threads    per thread, the call of get_or_create it runs: the statement it
\*            is at, the arguments and, once returned, the result
cacheVars == <<dirExists, files, now, lastHit, call, threads>>

\* upsert     the last call of db::upsert_user or db::upsert_user_by_username:
\*            its arguments and the row it returned
\* webhook    the webhook server: the secret token of its WebhookConfig and the
\*            requests it has served, each with its header, the status
\*            answered and whether process_update was spawned for its update
\* router     the update process_update is given and the handler it goes to
otherVars == <<upsert, webhook, router>>

\* ------------------------------------------------------------------------
\* MoveResolver: game/chess.rs
\* ------------------------------------------------------------------------
\* A text is the sequence of its characters.  A square is the text of its
\* name, <<"e", "4">>.  A ChessMove is its source, destination and promotion
\* ("" for None).  A position is the side to move and its men: the legal moves
\* of the position over the squares of the model, each with the piece that
\* stands on its source square.

LowerCase == <<"a", "b", "c", "d", "e", "f", "g", "h", "i", "j", "k", "l", "m",
               "n", "o", "p", "q", "r", "s", "t", "u", "v", "w", "x", "y", "z">>

UpperCase == <<"A", "B", "C", "D", "E", "F", "G", "H", "I", "J", "K", "L", "M",
               "N", "O", "P", "Q", "R", "S", "T", "U", "V", "W", "X", "Y", "Z">>

Digits == <<"0", "1", "2", "3", "4", "5", "6", "7", "8", "9">>

IndexIn(seq, c) == CHOOSE i \in 1..Len(seq) : seq[i] = c

Occurs(seq, c) == \E i \in 1..Len(seq) : seq[i] = c

\* char::to_ascii_lowercase, char::to_ascii_uppercase
ToAsciiLowercase(c) == IF Occurs(UpperCase, c) THEN LowerCase[IndexIn(UpperCase, c)] ELSE c

ToAsciiUppercase(c) == IF Occurs(LowerCase, c) THEN UpperCase[IndexIn(LowerCase, c)] ELSE c

\* str::to_lowercase on ASCII text
ToLowercase(s) == [i \in 1..Len(s) |-> ToAsciiLowercase(s[i])]

IsAsciiLowercase(c) == Occurs(LowerCase, c)

IsAsciiDigit(c) == Occurs(Digits, c)

\* str::trim: leading and trailing blanks removed
RECURSIVE TrimStart(_)
TrimStart(s) == IF Len(s) > 0 /\ s[1] = " " THEN TrimStart(Tail(s)) ELSE s

RECURSIVE TrimEndMatches(_, _)
TrimEndMatches(s, c) ==
    IF Len(s) > 0 /\ s[Len(s)] = c THEN TrimEndMatches(SubSeq(s, 1, Len(s) - 1), c) ELSE s

Trim(s) == TrimEndMatches(TrimStart(s), " ")

\* str::find: the index of the first c, 0 for None
Find(s, c) == IF Occurs(s, c) THEN CHOOSE i \in 1..Len(s) :
                                     s[i] = c /\ \A j \in 1..(i - 1) : s[j] # c
              ELSE 0

\* str::replace(c, "")
RECURSIVE Remove(_, _)
Remove(s, c) ==
    IF Len(s) = 0 THEN s
    ELSE IF s[1] = c THEN Remove(Tail(s), c) ELSE <<s[1]>> \o Remove(Tail(s), c)

FileNames == {"a", "b", "c", "d", "e", "f", "g", "h"}
RankNames == {"1", "2", "3", "4", "5", "6", "7", "8"}

\* File::to_index, Rank::to_index
FileIndex(sq) == IndexIn(LowerCase, sq[1]) - 1
RankIndex(sq) == IndexIn(Digits, sq[2]) - 2

NoSquare == <<>>

\* Square::from_str of a two-character text: NoSquare for Err
SquareFromStr(s) ==
    IF Len(s) = 2 /\ s[1] \in FileNames /\ s[2] \in RankNames THEN s ELSE NoSquare

\* ChessMove::new
ChessMove(source, dest, promotion) ==
    [source |-> source, dest |-> dest, promotion |-> promotion]

NoMove == ChessMove(NoSquare, NoSquare, "")

Man(piece, source, dest, promotion) ==
    [piece |-> piece, mv |-> ChessMove(source, dest, promotion)]

\* The legal moves the positions of the model are made of, per side to move
WhiteMen ==
    { Man("King", <<"e", "1">>, <<"g", "1">>, ""),
      Man("King", <<"e", "1">>, <<"c", "1">>, ""),
      Man("Bishop", <<"a", "1">>, <<"c", "3">>, ""),
      Man("Knight", <<"b", "1">>, <<"c", "3">>, ""),
      Man("Bishop", <<"c", "4">>, <<"a", "6">>, ""),
      Man("Pawn", <<"a", "5">>, <<"a", "6">>, ""),
      Man("Pawn", <<"e", "4">>, <<"d", "5">>, ""),
      Man("Pawn", <<"c", "4">>, <<"d", "5">>, ""),
      Man("Pawn", <<"b", "4">>, <<"c", "5">>, ""),
      Man("Bishop", <<"e", "3">>, <<"c", "5">>, ""),
      Man("Pawn", <<"a", "7">>, <<"a", "8">>, "Queen"),
      Man("Pawn", <<"a", "7">>, <<"a", "8">>, "Knight"),
      Man("Pawn", <<"b", "7">>, <<"a", "8">>, "Queen"),
      Man("Pawn", <<"b", "7">>, <<"a", "8">>, "Knight") }

BlackMen ==
    { Man("King", <<"e", "8">>, <<"g", "8">>, ""),
      Man("Knight", <<"b", "8">>, <<"d", "7">>, ""),
      Man("Knight", <<"f", "6">>, <<"d", "7">>, ""),
      Man("Knight", <<"b", "6">>, <<"d", "7">>, "") }

\* One piece stands on a square, and a pawn that may promote may promote to
\* every piece of the model
WellFormed(men) ==
    /\ \A a, b \in men : a.mv.source = b.mv.source => a.piece = b.piece
    /\ \A a \in men : a.mv.promotion # "" =>
          \A pr \in {"Queen", "Knight"} :
             Man(a.piece, a.mv.source, a.mv.dest, pr) \in men

PositionsOf(side, men) ==
    {[side |-> side, men |-> m] :
        m \in {x \in SUBSET men : Cardinality(x) <= MaxMen /\ WellFormed(x)}}

Positions == PositionsOf("White", WhiteMen) \cup PositionsOf("Black", BlackMen)

NoPosition == [side |-> "White", men |-> {}]

\* MoveGen::new_legal(board)
NewLegal(board) == {m.mv : m \in board.men}

\* board.piece_on(square).unwrap_or(Piece::Pawn)
PieceOn(board, sq) ==
    IF \E m \in board.men : m.mv.source = sq
    THEN (CHOOSE m \in board.men : m.mv.source = sq).piece
    ELSE "Pawn"


\* Result<ChessMove>: Ok(mv), or Err with the kind of its message
Ok(mv) == [ok |-> TRUE, mv |-> mv, err |-> ""]
Err(e) == [ok |-> FALSE, mv |-> NoMove, err |-> e]

\* parse_piece_char: "" for None
ParsePieceChar(c) ==
    CASE ToAsciiUppercase(c) = "K" -> "King"
      [] ToAsciiUppercase(c) = "Q" -> "Queen"
      [] ToAsciiUppercase(c) = "R" -> "Rook"
      [] ToAsciiUppercase(c) = "B" -> "Bishop"
      [] ToAsciiUppercase(c) = "N" -> "Knight"
      [] OTHER -> ""

\* parse_promotion_char: "" for Err
ParsePromotionChar(s) ==
    IF Len(s) # 1 THEN ""
    ELSE CASE ToAsciiUppercase(s[1]) = "Q" -> "Queen"
           [] ToAsciiUppercase(s[1]) = "R" -> "Rook"
           [] ToAsciiUppercase(s[1]) = "B" -> "Bishop"
           [] ToAsciiUppercase(s[1]) = "N" -> "Knight"
           [] OTHER -> ""

\* parse_promotion: "" for Err
ParsePromotion(token) ==
    CASE token = <<"q">> -> "Queen"
      [] token = <<"r">> -> "Rook"
      [] token = <<"b">> -> "Bishop"
      [] token = <<"n">> -> "Knight"
      [] OTHER -> ""

\* parse_castling: the king's move on the home rank of the side
CastlingMove(side, queenside) ==
    LET rank == IF side = "White" THEN "1" ELSE "8" IN
    ChessMove(<<"e", rank>>, <<IF queenside THEN "c" ELSE "g", rank>>, "")

\* mutant: the king's move is returned without asking the move generator
ParseCastling_Unchecked(board, side, queenside) == Ok(CastlingMove(side, queenside))

\* parse_castling
ParseCastling(board, side, queenside) ==
    IF CastlingMove(side, queenside) \in NewLegal(board)
    THEN Ok(CastlingMove(side, queenside))
    ELSE Err("CastlingNotLegal")

\* parse_san: the promotion split; move_part and promo ("" for None), ok
\* FALSE when `?` returns the Err of parse_promotion_char
PromotionSplit(s) ==
    LET pos == Find(s, "=") IN
    IF pos # 0
    THEN [ok |-> ParsePromotionChar(SubSeq(s, pos + 1, Len(s))) # "",
          move_part |-> SubSeq(s, 1, pos - 1),
          promo |-> ParsePromotionChar(SubSeq(s, pos + 1, Len(s)))]
    ELSE IF Len(s) >= 2 /\ IsAsciiDigit(s[Len(s) - 1])
              /\ ParsePromotionChar(<<s[Len(s)]>>) # ""
    THEN [ok |-> TRUE, move_part |-> SubSeq(s, 1, Len(s) - 1),
          promo |-> ParsePromotionChar(<<s[Len(s)]>>)]
    ELSE [ok |-> TRUE, move_part |-> s, promo |-> ""]

\* mutant: the disambiguation characters are not looked at
Disambiguates_Ignored(move_part, m) == TRUE

\* parse_san: the disambiguation check of a candidate, for move_part.len() > 3;
\* rank_num - 1 is computed in u8
Disambiguates(move_part, m) ==
    LET disambig == SubSeq(move_part, 2, Len(move_part) - 2) IN
    IF Len(disambig) = 1
    THEN IF IsAsciiLowercase(disambig[1])
         THEN FileIndex(m.source) = IndexIn(LowerCase, disambig[1]) - 1
         ELSE IF IsAsciiDigit(disambig[1])
         THEN RankIndex(m.source) = (IndexIn(Digits, disambig[1]) - 1 + 255) % 256
         ELSE FALSE
    ELSE IF Len(disambig) = 2
    THEN SquareFromStr(disambig) # NoSquare /\ m.source = SquareFromStr(disambig)
    ELSE FALSE

\* parse_san: the candidates the closure of `matches` keeps
SanMatches(board, move_part, candidates) ==
    LET piece_type == IF Len(move_part) > 2 THEN ParsePieceChar(move_part[1]) ELSE ""
        expected_piece == IF piece_type = "" THEN "Pawn" ELSE piece_type
    IN  {m \in candidates :
            /\ PieceOn(board, m.source) = expected_piece
            /\ Len(move_part) > 3 => Disambiguates(move_part, m)}

\* parse_san
ParseSan(board, text) ==
    LET s0 == Trim(text)
        s == TrimEndMatches(TrimEndMatches(s0, "+"), "#")
        split == PromotionSplit(s)
        move_part == Remove(Remove(split.move_part, "x"), "X")
        dest_str == SubSeq(move_part, Len(move_part) - 1, Len(move_part))
        dest == SquareFromStr(ToLowercase(dest_str))
        candidates == {m \in NewLegal(board) :
                          m.dest = dest /\ (split.promo = "" \/ m.promotion = split.promo)}
        matches == SanMatches(board, move_part, candidates)
    IN  IF s0 \in {<<"O", "-", "O">>, <<"o", "-", "o">>, <<"0", "-", "0">>}
        THEN ParseCastling(board, board.side, FALSE)
        ELSE IF s0 \in {<<"O", "-", "O", "-", "O">>, <<"o", "-", "o", "-", "o">>,
                        <<"0", "-", "0", "-", "0">>}
        THEN ParseCastling(board, board.side, TRUE)
        ELSE IF ~split.ok THEN Err("InvalidPromotionPiece")
        ELSE IF Len(move_part) < 2 THEN Err("SanTooShort")
        ELSE IF dest = NoSquare THEN Err("InvalidDestinationInSan")
        ELSE IF candidates = {} THEN Err("NoLegalMovesTo")
        ELSE IF Cardinality(matches) = 1 THEN Ok(CHOOSE m \in matches : TRUE)
        ELSE IF matches = {} THEN Err("NoLegalPieceMove")
        ELSE Err("AmbiguousSan")

\* mutant: one of several moves to the square is returned
ParseDestination_Any(board, mv) ==
    LET matches == {m \in NewLegal(board) : m.dest = SquareFromStr(mv)}
    IN  IF matches = {} THEN Err("AmbiguousOrIllegal") ELSE Ok(CHOOSE m \in matches : TRUE)

\* parse_move: the fallback for a text of two characters
ParseDestination(board, mv) ==
    LET dest == SquareFromStr(mv)
        matches == {m \in NewLegal(board) : m.dest = dest}
    IN  IF dest = NoSquare THEN Err("InvalidSquare")
        ELSE IF Cardinality(matches) = 1 THEN Ok(CHOOSE m \in matches : TRUE)
        ELSE Err("AmbiguousOrIllegal")

\* parse_move: the fallback for a text of four or five characters
ParseCoordinates(board, mv) ==
    LET from == SquareFromStr(SubSeq(mv, 1, 2))
        to == SquareFromStr(SubSeq(mv, 3, 4))
        promo == IF Len(mv) = 5 THEN ParsePromotion(SubSeq(mv, 5, 5)) ELSE ""
    IN  IF from = NoSquare THEN Err("InvalidSourceSquare")
        ELSE IF to = NoSquare THEN Err("InvalidDestinationSquare")
        ELSE IF Len(mv) = 5 /\ promo = "" THEN Err("UnknownPromotionPiece")
        ELSE IF ChessMove(from, to, promo) \in NewLegal(board)
        THEN Ok(ChessMove(from, to, promo))
        ELSE Err("IllegalMove")

\* parse_move
ParseMoveText(board, text) ==
    LET trimmed == Trim(text)
        mv == ToLowercase(trimmed)
    IN  IF ParseSan(board, trimmed).ok THEN ParseSan(board, trimmed)
        ELSE IF Len(mv) = 2 THEN ParseDestination(board, mv)
        ELSE IF Len(mv) \in {4, 5} THEN ParseCoordinates(board, mv)
        ELSE Err("IllegalMove")

\* ---- the texts given to parse_move ----

PieceLetter(piece) ==
    CASE piece = "King" -> "K"
      [] piece = "Queen" -> "Q"
      [] piece = "Rook" -> "R"
      [] piece = "Bishop" -> "B"
      [] piece = "Knight" -> "N"

\* Full coordinate notation of a move: e2e4, a7a8q
Coordinates(mv) ==
    mv.source \o mv.dest \o
    (IF mv.promotion = "" THEN <<>> ELSE <<ToAsciiLowercase(PieceLetter(mv.promotion))>>)

\* The ways SAN writes the promotion of a move: a8=Q, a8Q
PromotionSuffixes(mv) ==
    IF mv.promotion = "" THEN {<<>>}
    ELSE {<<"=", PieceLetter(mv.promotion)>>, <<PieceLetter(mv.promotion)>>}

\* A pawn that changes file captures
IsPawnCapture(man) == man.piece = "Pawn" /\ man.mv.source[1] # man.mv.dest[1]

\* SAN of a pawn move: the destination, after the source file and x for a
\* capture
PawnSan(man) ==
    {(IF IsPawnCapture(man) THEN <<man.mv.source[1], "x">> ELSE <<>>)
        \o man.mv.dest \o suffix : suffix \in PromotionSuffixes(man.mv)}

\* SAN of a piece move with the source written as `source`: none, file, rank or
\* square, with or without the capture mark
PieceSan(man, source) ==
    {<<PieceLetter(man.piece)>> \o source \o mark \o man.mv.dest :
        mark \in {<<>>, <<"x">>}}

KingsideAliases ==
    {<<"O", "-", "O">>, <<"o", "-", "o">>, <<"0", "-", "0">>,
     <<"0", "0">>, <<"o", "o">>, <<"O", "O">>}

QueensideAliases ==
    {<<"O", "-", "O", "-", "O">>, <<"o", "-", "o", "-", "o">>, <<"0", "-", "0", "-", "0">>,
     <<"0", "0", "0">>, <<"o", "o", "o">>, <<"O", "O", "O">>}

\* Every notation of every move of the model, the bare destinations, the
\* castling aliases, and texts with a check mark, a lower-case piece letter
\* and blanks around them
Tokens ==
    LET men == WhiteMen \cup BlackMen IN
    UNION {
        {Coordinates(m.mv) : m \in men},
        {m.mv.dest : m \in men},
        UNION {PawnSan(m) : m \in {x \in men : x.piece = "Pawn"}},
        UNION {UNION {PieceSan(m, src) :
                          src \in {<<>>, <<m.mv.source[1]>>, <<m.mv.source[2]>>, m.mv.source}} :
                  m \in {x \in men : x.piece # "Pawn"}},
        KingsideAliases, QueensideAliases,
        {<<"N", "b", "d", "7", "+">>, <<"n", "b", "d", "7">>, <<"e", "x", "d", "5", "#">>,
         <<" ", "a", "6", " ">>, <<"a", "8", "=", "K">>} }

NoOutcome == [fn |-> "", res |-> Err("")]

\* ------------------------------------------------------------------------
\* BoardImageCache: game/cache.rs
\* ------------------------------------------------------------------------
\* A board is the text board.to_string() gives, cut to the placement of two
\* ranks and the side to move.  A file holds the bytes written to it, whole
\* or cut short, and the time of the write.  Sizes are in units of the budget.

EvictionTargetPercent == 80

\* get_cache_size_limit_mb() * 1024 * 1024, in units
MaxSizeBytes == 6

Boards == { <<"K", "/", "k", " ", "w">>, <<"K", "/", "k", " ", "b">> }

\* str::replace(['/', ' '], "_")
ReplaceWithUnderscore(fen) ==
    [i \in 1..Len(fen) |-> IF fen[i] \in {"/", " "} THEN "_" ELSE fen[i]]

\* get_cache_path
GetCachePath(board, flip_board) ==
    ReplaceWithUnderscore(board)
        \o (IF flip_board THEN <<"_", "f", "l", "i", "p", "p", "e", "d">> ELSE <<>>)
        \o <<".", "p", "n", "g">>

Paths == {GetCachePath(board, flip_board) : board \in Boards, flip_board \in BOOLEAN}

\* render_fn(): the image of the board from the orientation
Render(board, flip_board) == [board |-> board, flip_board |-> flip_board, whole |-> TRUE]

\* What a write that failed part way leaves of the image
CutShort(bytes) == [bytes EXCEPT !.whole = FALSE]

\* Vec::len of an image, metadata.len() of the file that holds it
ByteLen(bytes) ==
    IF ~bytes.whole THEN 1
    ELSE CASE bytes.board[5] = "w" /\ ~bytes.flip_board -> 4
           [] bytes.board[5] = "w" /\ bytes.flip_board -> 3
           [] bytes.board[5] = "b" /\ ~bytes.flip_board -> 5
           [] bytes.board[5] = "b" /\ bytes.flip_board -> 2

NoBytes == [board |-> <<>>, flip_board |-> FALSE, whole |-> FALSE]

NoFile == [exists |-> FALSE, bytes |-> NoBytes, mtime |-> 0]

File(bytes, mtime) == [exists |-> TRUE, bytes |-> bytes, mtime |-> mtime]

\* The paths of the .png files of the directory
Stored(fs) == {path \in Paths : fs[path].exists}

RECURSIVE SizeOf(_, _)
SizeOf(fs, paths) ==
    IF paths = {} THEN 0
    ELSE LET path == CHOOSE x \in paths : TRUE
         IN  ByteLen(fs[path].bytes) + SizeOf(fs, paths \ {path})

\* calculate_cache_size
CalculateCacheSize(fs) == SizeOf(fs, Stored(fs))

\* evict_lru_files: files.sort_by_key(mtime), oldest first
RECURSIVE SortByMtime(_, _)
SortByMtime(fs, paths) ==
    IF paths = {} THEN <<>>
    ELSE LET oldest == CHOOSE x \in paths : \A y \in paths : fs[x].mtime <= fs[y].mtime
         IN  <<oldest>> \o SortByMtime(fs, paths \ {oldest})

\* mutant: the first fs::remove_file that fails ends the pass
RECURSIVE EvictLoop_Aborts(_, _, _, _, _, _)
EvictLoop_Aborts(fs, sorted, current_size, target_size, freed_size, undeletable) ==
    IF sorted = <<>> \/ current_size - freed_size <= target_size THEN {}
    ELSE IF Head(sorted) \in undeletable THEN {}
    ELSE {Head(sorted)} \cup
         EvictLoop_Aborts(fs, Tail(sorted), current_size, target_size,
                          freed_size + ByteLen(fs[Head(sorted)].bytes), undeletable)

\* evict_lru_files: the loop over the sorted files; the paths it removes, when
\* fs::remove_file fails for the paths of `undeletable`
RECURSIVE EvictLoop(_, _, _, _, _, _)
EvictLoop(fs, sorted, current_size, target_size, freed_size, undeletable) ==
    IF sorted = <<>> \/ current_size - freed_size <= target_size THEN {}
    ELSE IF Head(sorted) \in undeletable
    THEN EvictLoop(fs, Tail(sorted), current_size, target_size, freed_size, undeletable)
    ELSE {Head(sorted)} \cup
         EvictLoop(fs, Tail(sorted), current_size, target_size,
                   freed_size + ByteLen(fs[Head(sorted)].bytes), undeletable)

\* mutant: the newest files are removed first
EvictLruFiles_NewestFirst(fs, current_size, target_size, undeletable) ==
    LET sorted == SortByMtime(fs, Stored(fs))
        reversed == [i \in 1..Len(sorted) |-> sorted[Len(sorted) + 1 - i]]
    IN  EvictLoop(fs, reversed, current_size, target_size, 0, undeletable)

\* evict_lru_files: the paths removed
EvictLruFiles(fs, current_size, target_size, undeletable) ==
    EvictLoop(fs, SortByMtime(fs, Stored(fs)), current_size, target_size, 0, undeletable)

\* check_and_evict_if_needed: the paths removed
CheckAndEvictIfNeeded(fs, undeletable) ==
    LET max_size_bytes == MaxSizeBytes
        current_size == CalculateCacheSize(fs)
        target_size == (max_size_bytes * EvictionTargetPercent) \div 100
    IN  IF current_size > max_size_bytes
        THEN EvictLruFiles(fs, current_size, target_size, undeletable)
        ELSE {}

\* The directory without the files of `paths`
Without(fs, paths) == [path \in Paths |-> IF path \in paths THEN NoFile ELSE fs[path]]

\* Result<Vec<u8>>
OkBytes(bytes) == [ok |-> TRUE, bytes |-> bytes]
ErrBytes == [ok |-> FALSE, bytes |-> NoBytes]

NoCall ==
    [done |-> FALSE, board |-> <<>>, flip_board |-> FALSE, res |-> ErrBytes,
     hit |-> FALSE, render_ok |-> FALSE, scanned |-> FALSE, removals_ok |-> FALSE,
     undeletable |-> {}, evicted |-> {}]

\* A thread that runs no call of get_or_create
NoThread == [pc |-> "idle", board |-> <<>>, flip_board |-> FALSE, res |-> ErrBytes]

\* ------------------------------------------------------------------------
\* PositionEngine: the chess crate seen through the handlers
\* ------------------------------------------------------------------------
Moves == {"quiet", "mate", "stale"}

\* Board::default()
DefaultBoard == <<>>

\* Board::side_to_move
SideToMove(board) == IF Len(board) % 2 = 0 THEN "White" ELSE "Black"

\* Board::status
BoardStatus(board) ==
    IF Len(board) = 0 THEN "Ongoing"
    ELSE CASE board[Len(board)] = "mate" -> "Checkmate"
           [] board[Len(board)] = "stale" -> "Stalemate"
           [] OTHER -> "Ongoing"

\* MoveGen::new_legal: a finished position has no legal move, and no move of
\* the first ply ends the game.
LegalMoves(board) ==
    IF BoardStatus(board) # "Ongoing" THEN {}
    ELSE IF Len(board) = 0 THEN {"quiet"} ELSE Moves

\* Board::make_move_new
MakeMoveNew(board, mv) == Append(board, mv)

\* game::color_to_turn
ColorToTurn(color) == IF color = "White" THEN "w" ELSE "b"

\* The texts a user may send with a move request: "none" carries no move
\* candidate, the others name a move.
Texts == {"none"} \cup Moves

\* parsing::extract_move
ExtractMove(text) == IF text = "none" THEN "" ELSE text

\* game::parse_move: the move named by the candidate if it is legal on the
\* board, "" for Err
ParseMove(board, candidate) ==
    IF candidate \in LegalMoves(board) THEN candidate ELSE ""


\* ------------------------------------------------------------------------
\* Persistence: the SQL statements of db/database.rs
\* ------------------------------------------------------------------------
\* users: rows in insertion order, the row's index is users.id
\* games: rows in insertion order, the row's index is games.id
\* moves: moves[g] holds the rows of table moves with game_id = g, in
\*        insertion order

\* get_user_by_telegram_id: the id of the row holding the Telegram id, NULL
\* when there is none
UserIdOf(us, tg) ==
    IF \E i \in 1..Len(us) : us[i].telegram_id = tg
    THEN CHOOSE i \in 1..Len(us) : us[i].telegram_id = tg
    ELSE NULL

\* User.username None, users.username NULL
NoName == ""

\* get_user_by_username: the id of the row holding the username, NULL when
\* there is none
UserIdByUsername(us, username) ==
    IF \E i \in 1..Len(us) : us[i].username = username
    THEN CHOOSE i \in 1..Len(us) : us[i].username = username
    ELSE NULL

\* A new row of users; the counters take their column default 0
UserRow(tg, username) ==
    [telegram_id |-> tg, username |-> username, wins |-> 0, losses |-> 0, draws |-> 0]

\* The row `id` of the table may hold the username: users.username is UNIQUE,
\* the constraint ON CONFLICT(username) of upsert_user_by_username names
UsernameFree(us, id, username) ==
    username = NoName \/ \A i \in 1..Len(us) : i # id => us[i].username # username

\* upsert_user, first statement: INSERT ... ON CONFLICT(telegram_id) DO UPDATE
\* SET username = excluded.username; ok FALSE when the statement fails on the
\* UNIQUE constraint of users.username
InsertOrUpdateUser(us, tg, username) ==
    LET id == UserIdOf(us, tg) IN
    IF ~UsernameFree(us, id, username) THEN [ok |-> FALSE, users |-> us]
    ELSE IF id # NULL THEN [ok |-> TRUE, users |-> [us EXCEPT ![id].username = username]]
    ELSE [ok |-> TRUE, users |-> Append(us, UserRow(tg, username))]

\* upsert_user, second statement: UPDATE users SET telegram_id = $1
\* WHERE username = $4 AND (telegram_id IS NULL OR telegram_id = $1)
ClaimUsername(us, tg, username) ==
    [i \in 1..Len(us) |->
        IF us[i].username = username /\ us[i].telegram_id \in {NULL, tg}
        THEN [us[i] EXCEPT !.telegram_id = tg] ELSE us[i]]

\* upsert_user of a user with a username: the table it leaves, ok FALSE when
\* `?` returns the error of the first statement
UpsertNamedUser(us, tg, username) ==
    LET first == InsertOrUpdateUser(us, tg, username) IN
    IF ~first.ok THEN first
    ELSE IF username = NoName THEN first
    ELSE [ok |-> TRUE, users |-> ClaimUsername(first.users, tg, username)]

\* upsert_user of a user without a username
UpsertUser(us, tg) == UpsertNamedUser(us, tg, NoName).users

\* upsert_user_by_username: INSERT ... ON CONFLICT(username) DO NOTHING
UpsertUserByUsername(us, username) ==
    IF UserIdByUsername(us, username) # NULL THEN us
    ELSE Append(us, UserRow(NULL, username))

\* WebhookConfig.secret_token None
NoSecret == ""

NoUpsert == [fn |-> "", telegram_id |-> NULL, username |-> NoName, ok |-> FALSE, id |-> NULL]

\* A handler call of process_update
Call(handler, text) == [handler |-> handler, text |-> text]

NoRouting == Call("not routed", <<>>)

NoUpdate == [from_is_bot |-> FALSE, replied_to_bot |-> FALSE, text |-> <<>>,
             routed |-> NoRouting]

\* create_game: the new row; status, result, last_message_id and
\* draw_proposed_by take their column defaults
NewGameRow(chat_id, white_id, black_id, fen, turn) ==
    [chat_id |-> chat_id, white_user_id |-> white_id, black_user_id |-> black_id,
     current_fen |-> fen, turn |-> turn, status |-> "ongoing",
     result |-> NoResult, last_message_id |-> NULL, draw_proposed_by |-> NULL]

\* mutant: the chat is not compared
OngoingGamesOf_AnyChat(gs, chat_id, a, b) ==
    {g \in 1..Len(gs) :
        /\ gs[g].status = "ongoing"
        /\ \/ (gs[g].white_user_id = a /\ gs[g].black_user_id = b)
           \/ (gs[g].white_user_id = b /\ gs[g].black_user_id = a)}

\* find_ongoing_game: the ids of the rows the WHERE clause selects
OngoingGamesOf(gs, chat_id, a, b) ==
    {g \in 1..Len(gs) :
        /\ gs[g].chat_id = chat_id
        /\ gs[g].status = "ongoing"
        /\ \/ (gs[g].white_user_id = a /\ gs[g].black_user_id = b)
           \/ (gs[g].white_user_id = b /\ gs[g].black_user_id = a)}

\* find_ongoing_game ... LIMIT 1 ... is_some()
FindOngoingGame(gs, chat_id, a, b) == OngoingGamesOf(gs, chat_id, a, b) # {}

\* find_game_by_message: WHERE chat_id = $1 AND last_message_id = $2 LIMIT 1;
\* NULL when no row matches
FindGameByMessage(gs, chat_id, message_id) ==
    IF \E g \in 1..Len(gs) :
           gs[g].chat_id = chat_id /\ gs[g].last_message_id = message_id
    THEN CHOOSE g \in 1..Len(gs) :
           gs[g].chat_id = chat_id /\ gs[g].last_message_id = message_id
    ELSE NULL

\* mutant: the proposal column is left alone
UpdateGameResult_KeepProposal(row, result, status) ==
    [row EXCEPT !.result = result, !.status = status]

\* update_game_result: SET result, status, draw_proposed_by = NULL
UpdateGameResult(row, result, status) ==
    [row EXCEPT !.result = result, !.status = status, !.draw_proposed_by = NULL]

\* mutant: a pending proposal is kept
ProposeDraw_KeepFirst(row, player_id) ==
    IF row.draw_proposed_by = NULL THEN [row EXCEPT !.draw_proposed_by = player_id]
    ELSE row

\* propose_draw: SET draw_proposed_by = $1
ProposeDraw(row, player_id) == [row EXCEPT !.draw_proposed_by = player_id]

\* clear_draw_proposal: SET draw_proposed_by = NULL
ClearDrawProposal(row) == [row EXCEPT !.draw_proposed_by = NULL]

\* update_game_fen: SET current_fen = $1, turn = $2
UpdateGameFen(row, fen, turn) == [row EXCEPT !.current_fen = fen, !.turn = turn]

\* update_game_message: SET last_message_id = $1
UpdateGameMessage(row, message_id) == [row EXCEPT !.last_message_id = message_id]

\* next_move_number: COALESCE(MAX(move_number), 0) + 1
MaxNat(S) == IF S = {} THEN 0 ELSE CHOOSE n \in S : \A m \in S : m <= n

\* mutant: the maximum is ignored
NextMoveNumber_First(log) == MaxNat({}) + 1

NextMoveNumber(log) == MaxNat({log[i].move_number : i \in 1..Len(log)}) + 1

\* insert_move: the new row of table moves
NewMoveRow(player_id, move_number, uci) ==
    [move_number |-> move_number, uci |-> uci, played_by |-> player_id]

\* update_player_stats, first statement of the arm the result selects
StatsFirst(us, white_id, black_id, result) ==
    CASE result = "1-0" -> [us EXCEPT ![white_id].wins = @ + 1]
      [] result = "0-1" -> [us EXCEPT ![black_id].wins = @ + 1]
      [] result = "1/2-1/2" -> [us EXCEPT ![white_id].draws = @ + 1]
      [] OTHER -> us

\* mutant: the second statement counts for the same user as the first
StatsSecond_SameUser(us, white_id, black_id, result) ==
    CASE result = "1-0" -> [us EXCEPT ![white_id].losses = @ + 1]
      [] result = "0-1" -> [us EXCEPT ![black_id].losses = @ + 1]
      [] result = "1/2-1/2" -> [us EXCEPT ![white_id].draws = @ + 1]
      [] OTHER -> us

\* update_player_stats, second statement of the arm the result selects
StatsSecond(us, white_id, black_id, result) ==
    CASE result = "1-0" -> [us EXCEPT ![black_id].losses = @ + 1]
      [] result = "0-1" -> [us EXCEPT ![white_id].losses = @ + 1]
      [] result = "1/2-1/2" -> [us EXCEPT ![black_id].draws = @ + 1]
      [] OTHER -> us


\* ------------------------------------------------------------------------
\* Handlers
\* ------------------------------------------------------------------------
\* pc[p]   the statement task p executes next, "idle" when it serves no update
\* loc[p]  the local variables of the handler task p runs; reply is the text
\*         of the message it is about to send

NoGame == [chat_id |-> 0, white_user_id |-> NULL, black_user_id |-> NULL,
           current_fen |-> <<>>, turn |-> "", status |-> "", result |-> NoResult,
           last_message_id |-> NULL, draw_proposed_by |-> NULL]

NoLoc == [op |-> "", game_id |-> NULL, game |-> NoGame, player |-> NULL,
          board |-> <<>>, mv |-> "", next_board |-> <<>>, move_number |-> 0,
          result |-> "", reply |-> ""]

Init ==
    /\ users = <<>>
    /\ games = <<>>
    /\ moves = <<>>
    /\ nextMessageId = 1
    /\ pc = [p \in Procs |-> "idle"]
    /\ loc = [p \in Procs |-> NoLoc]
    /\ position = NoPosition
    /\ input = <<>>
    /\ outcome = NoOutcome
    /\ dirExists = FALSE
    /\ files = [path \in Paths |-> NoFile]
    /\ now = 0
    /\ lastHit = [path \in Paths |-> 0]
    /\ call = NoCall
    /\ threads = [t \in Procs |-> NoThread]
    /\ upsert = NoUpsert
    /\ webhook = [secret_token |-> NoSecret, served |-> <<>>]
    /\ router = NoUpdate

\* The handler's checks are over: it returns at once (reply "") or after
\* telegram.send_message(reply)
Finish(p, reply) ==
    /\ pc' = [pc EXCEPT ![p] = IF reply = "" THEN "idle" ELSE "send_reply"]
    /\ loc' = [loc EXCEPT ![p] = [NoLoc EXCEPT !.reply = reply]]
    /\ UNCHANGED <<resolverVars, cacheVars, otherVars>>

\* The handler goes on to statement `next` with the locals l
Goto(p, l, next) ==
    /\ pc' = [pc EXCEPT ![p] = next]
    /\ loc' = [loc EXCEPT ![p] = l]
    /\ UNCHANGED <<resolverVars, cacheVars, otherVars>>

\* mutant: the status check is missing
NotOngoing_Dropped(game) == FALSE

\* game.status != "ongoing"
NotOngoing(game) == game.status # "ongoing"

\* mutant: anyone passes for a participant
NotParticipant_Anyone(player, game) == FALSE

\* player.id != game.white_user_id && player.id != game.black_user_id
NotParticipant(player, game) ==
    player # game.white_user_id /\ player # game.black_user_id

\* mutant: the colours are swapped
ExpectedId_Swapped(game, board) ==
    IF SideToMove(board) = "White" THEN game.black_user_id ELSE game.white_user_id

\* handle_move: the participant whose colour is to move on the board
ExpectedId(game, board) ==
    IF SideToMove(board) = "White" THEN game.white_user_id ELSE game.black_user_id

\* determine_game_result: the result string for a finished board;
\* side_to_move is the argument handle_move passes
DetermineGameResult(status, side_to_move) ==
    CASE status = "Checkmate" -> IF side_to_move = "White" THEN "0-1" ELSE "1-0"
      [] status = "Stalemate" -> "1/2-1/2"
      [] OTHER -> ""

\* mutant: the resigning side wins
ResignResult_Swapped(player, game) ==
    IF player = game.white_user_id THEN "1-0" ELSE "0-1"

\* handle_resign: the result when `player` resigns
ResignResult(player, game) ==
    IF player = game.white_user_id THEN "0-1" ELSE "1-0"

\* Message ids a reply may refer to: the board messages sent so far
SentMessages == 1..(nextMessageId - 1)

\* Tasks that will still insert a row into moves of game g
MovesInFlight(g) ==
    Cardinality({q \in Procs : /\ pc[q] \in {"move_clear", "move_number", "move_insert"}
                               /\ loc[q].game_id = g})

\* ---- handle_start_game ----

\* /start in chat from `from`, replying to a message of `opp` (NULL: to none,
\* the usage reply), up to find_ongoing_game and the optional first move
StartRequest(p, chat, from, opp, text) ==
    /\ pc[p] = "idle"
    /\ UNCHANGED <<games, moves, nextMessageId>>
    /\ IF opp = NULL
       THEN Finish(p, "Usage") /\ UNCHANGED users
       ELSE
       LET us == UpsertUser(UpsertUser(users, from), opp)
           white == UserIdOf(us, from)
           black == UserIdOf(us, opp)
           candidate == ExtractMove(text)
           mv == IF candidate = "" THEN "" ELSE ParseMove(DefaultBoard, candidate)
           board == IF mv = "" THEN DefaultBoard ELSE MakeMoveNew(DefaultBoard, mv)
           row == NewGameRow(chat, white, black, board, ColorToTurn(SideToMove(board)))
       IN  /\ users' = us
           /\ IF white = black
              THEN Finish(p, "SelfPlay")
              ELSE IF FindOngoingGame(games, chat, white, black)
              THEN Finish(p, "AlreadyOngoing")
              ELSE IF candidate # "" /\ mv = ""
              THEN Finish(p, "")       \* parse_move(..)? returns Err
              ELSE Goto(p, [NoLoc EXCEPT !.op = "start", !.player = white,
                                         !.game = row, !.mv = mv,
                                         !.next_board = board],
                        "start_create")

HandleStartGame(p) ==
    \E chat \in Chats, from \in Starters, opp \in Starters \cup {NULL},
       text \in {"none", "quiet", "mate"} :
        /\ StartRequest(p, chat, from, opp, text)
        /\ pc'[p] = "start_create" => Len(games) < MaxGames

\* db::create_game
StartCreate(p) ==
    /\ pc[p] = "start_create"
    /\ games' = Append(games, loc[p].game)
    /\ moves' = Append(moves, <<>>)
    /\ Goto(p, [loc[p] EXCEPT !.game_id = Len(games) + 1],
            IF loc[p].mv # "" THEN "start_insert" ELSE "start_send")
    /\ UNCHANGED <<users, nextMessageId>>

\* db::insert_move of the first move, number 1, played by white
StartInsert(p) ==
    /\ pc[p] = "start_insert"
    /\ moves' = [moves EXCEPT ![loc[p].game_id] =
                    Append(@, NewMoveRow(loc[p].player, 1, loc[p].mv))]
    /\ Goto(p, loc[p], "start_send")
    /\ UNCHANGED <<users, games, nextMessageId>>

\* send_board_update and db::update_game_message
StartSend(p) ==
    /\ pc[p] = "start_send"
    /\ nextMessageId' = nextMessageId + 1
    /\ games' = [games EXCEPT ![loc[p].game_id] = UpdateGameMessage(@, nextMessageId)]
    /\ Finish(p, "")
    /\ UNCHANGED <<users, moves>>

\* ---- handle_move ----

\* mutant: a text that names no legal move is not refused
MoveCheck_NoParse(game, player, board, mv) ==
    IF NotParticipant(player, game) THEN "OtherPlayers"
    ELSE IF player # ExpectedId(game, board) THEN "NotYourTurn"
    ELSE ""

\* The reply of handle_move's checks on the row it read, "" when all pass
MoveCheck(game, player, board, mv) ==
    IF NotParticipant(player, game) THEN "OtherPlayers"
    ELSE IF player # ExpectedId(game, board) THEN "NotYourTurn"
    ELSE IF mv = "" THEN "InvalidMove"
    ELSE ""

\* mutant: the proposal is never cleared
AfterParse_NoClear(game) == "move_number"

\* The statement that follows a successful parse
AfterParse(game) ==
    IF game.draw_proposed_by # NULL THEN "move_clear" ELSE "move_number"

\* A reply with `text` from `from` to message `target`, up to parse_move:
\* find_game_by_message, the status check, extract_move, upsert_user, the
\* participant and turn checks
MoveRequest(p, chat, from, target, text) ==
    LET g == FindGameByMessage(games, chat, target) IN
    /\ pc[p] = "idle"
    /\ UNCHANGED <<games, moves, nextMessageId>>
    /\ IF g = NULL
       THEN Finish(p, "") /\ UNCHANGED users
       ELSE IF NotOngoing(games[g]) \/ ExtractMove(text) = ""
       THEN Finish(p, "") /\ UNCHANGED users
       ELSE
       LET us == UpsertUser(users, from)
           player == UserIdOf(us, from)
           board == games[g].current_fen
           mv == ParseMove(board, ExtractMove(text))
           check == MoveCheck(games[g], player, board, mv)
       IN  /\ users' = us
           /\ IF check # ""
              THEN Finish(p, check)
              ELSE /\ Len(moves[g]) + MovesInFlight(g) < MaxPly
                   /\ Goto(p, [NoLoc EXCEPT !.op = "move", !.game_id = g,
                                            !.game = games[g], !.player = player,
                                            !.board = board, !.mv = mv,
                                            !.next_board = MakeMoveNew(board, mv)],
                           AfterParse(games[g]))

HandleMove(p) ==
    \E chat \in Chats, from \in TgUsers, target \in SentMessages, text \in Texts :
        MoveRequest(p, chat, from, target, text)

\* db::clear_draw_proposal
MoveClear(p) ==
    /\ pc[p] = "move_clear"
    /\ games' = [games EXCEPT ![loc[p].game_id] = ClearDrawProposal(@)]
    /\ Goto(p, loc[p], "move_number")
    /\ UNCHANGED <<users, moves, nextMessageId>>

\* db::next_move_number
MoveNumber(p) ==
    /\ pc[p] = "move_number"
    /\ Goto(p, [loc[p] EXCEPT !.move_number = NextMoveNumber(moves[loc[p].game_id])],
            "move_insert")
    /\ UNCHANGED <<users, games, moves, nextMessageId>>

\* The statement that follows insert_move
AfterInsert(l) ==
    IF BoardStatus(l.next_board) # "Ongoing" THEN "move_result" ELSE "move_fen"

\* db::insert_move, then the status of the new board and its result
MoveInsert(p) ==
    /\ pc[p] = "move_insert"
    /\ moves' = [moves EXCEPT ![loc[p].game_id] =
                    Append(@, NewMoveRow(loc[p].player, loc[p].move_number, loc[p].mv))]
    /\ LET status == BoardStatus(loc[p].next_board)
           result == DetermineGameResult(status, SideToMove(loc[p].board))
       IN  Goto(p, [loc[p] EXCEPT !.result = result], AfterInsert(loc[p]))
    /\ UNCHANGED <<users, games, nextMessageId>>

\* db::update_game_result of a move that ended the game
MoveResult(p) ==
    /\ pc[p] = "move_result"
    /\ games' = [games EXCEPT ![loc[p].game_id] =
                    UpdateGameResult(@, loc[p].result, "finished")]
    /\ Goto(p, loc[p], "stats_first")
    /\ UNCHANGED <<users, moves, nextMessageId>>

\* mutant: the board before the move is written back
FenWritten_Stale(row, l) ==
    UpdateGameFen(row, l.board, ColorToTurn(SideToMove(l.board)))

\* The row update_game_fen leaves
FenWritten(row, l) ==
    UpdateGameFen(row, l.next_board, ColorToTurn(SideToMove(l.next_board)))

\* db::update_game_fen; a finished game then gets its end message
MoveFen(p) ==
    /\ pc[p] = "move_fen"
    /\ games' = [games EXCEPT ![loc[p].game_id] = FenWritten(@, loc[p])]
    /\ IF BoardStatus(loc[p].next_board) # "Ongoing"
       THEN Finish(p, "")
       ELSE Goto(p, loc[p], "move_send")
    /\ UNCHANGED <<users, moves, nextMessageId>>

\* send_board_update and db::update_game_message
MoveSend(p) ==
    /\ pc[p] = "move_send"
    /\ nextMessageId' = nextMessageId + 1
    /\ games' = [games EXCEPT ![loc[p].game_id] = UpdateGameMessage(@, nextMessageId)]
    /\ Finish(p, "")
    /\ UNCHANGED <<users, moves>>

\* ---- handle_resign ----

\* /resign from `from` replying to message `target`, up to the participant
\* check
ResignRequest(p, chat, from, target) ==
    LET g == FindGameByMessage(games, chat, target) IN
    /\ pc[p] = "idle"
    /\ UNCHANGED <<games, moves, nextMessageId>>
    /\ IF g = NULL
       THEN Finish(p, "") /\ UNCHANGED users
       ELSE IF NotOngoing(games[g])
       THEN Finish(p, "") /\ UNCHANGED users
       ELSE
       LET us == UpsertUser(users, from)
           player == UserIdOf(us, from)
       IN  /\ users' = us
           /\ IF NotParticipant(player, games[g])
              THEN Finish(p, "")
              ELSE Goto(p, [NoLoc EXCEPT !.op = "resign", !.game_id = g,
                                         !.game = games[g], !.player = player,
                                         !.result = ResignResult(player, games[g])],
                        "end_result")

HandleResign(p) ==
    \E chat \in Chats, from \in TgUsers, target \in SentMessages :
        ResignRequest(p, chat, from, target)

\* ---- handle_draw_proposal ----

\* /draw from `from` replying to message `target`, up to the participant check
DrawRequest(p, chat, from, target) ==
    LET g == FindGameByMessage(games, chat, target) IN
    /\ pc[p] = "idle"
    /\ UNCHANGED <<games, moves, nextMessageId>>
    /\ IF g = NULL
       THEN Finish(p, "") /\ UNCHANGED users
       ELSE IF NotOngoing(games[g])
       THEN Finish(p, "") /\ UNCHANGED users
       ELSE
       LET us == UpsertUser(users, from)
           player == UserIdOf(us, from)
       IN  /\ users' = us
           /\ IF NotParticipant(player, games[g])
              THEN Finish(p, "")
              ELSE Goto(p, [NoLoc EXCEPT !.op = "draw", !.game_id = g,
                                         !.game = games[g], !.player = player],
                        "draw_propose")

HandleDrawProposal(p) ==
    \E chat \in Chats, from \in TgUsers, target \in SentMessages :
        DrawRequest(p, chat, from, target)

\* the proposal message and db::propose_draw
DrawPropose(p) ==
    /\ pc[p] = "draw_propose"
    /\ games' = [games EXCEPT ![loc[p].game_id] = ProposeDraw(@, loc[p].player)]
    /\ Finish(p, "")
    /\ UNCHANGED <<users, moves, nextMessageId>>

\* ---- handle_accept_draw ----

\* mutant: the proposer may accept
AcceptCheck_NoOwn(game, player) ==
    IF game.draw_proposed_by = NULL THEN "NoProposal" ELSE ""

\* The reply of handle_accept_draw's checks on the row it read, "" when the
\* draw is agreed
AcceptCheck(game, player) ==
    IF game.draw_proposed_by = NULL THEN "NoProposal"
    ELSE IF game.draw_proposed_by = player THEN "OwnProposal"
    ELSE ""

\* /accept from `from` replying to message `target`, up to the proposal checks
AcceptRequest(p, chat, from, target) ==
    LET g == FindGameByMessage(games, chat, target) IN
    /\ pc[p] = "idle"
    /\ UNCHANGED <<games, moves, nextMessageId>>
    /\ IF g = NULL
       THEN Finish(p, "") /\ UNCHANGED users
       ELSE IF NotOngoing(games[g])
       THEN Finish(p, "") /\ UNCHANGED users
       ELSE
       LET us == UpsertUser(users, from)
           player == UserIdOf(us, from)
       IN  /\ users' = us
           /\ IF NotParticipant(player, games[g])
              THEN Finish(p, "")
              ELSE IF AcceptCheck(games[g], player) # ""
              THEN Finish(p, AcceptCheck(games[g], player))
              ELSE Goto(p, [NoLoc EXCEPT !.op = "accept", !.game_id = g,
                                         !.game = games[g], !.player = player,
                                         !.result = "1/2-1/2"],
                        "end_result")

HandleAcceptDraw(p) ==
    \E chat \in Chats, from \in TgUsers, target \in SentMessages :
        AcceptRequest(p, chat, from, target)

\* ---- the statements that end a game ----

\* db::update_game_result of handle_resign and handle_accept_draw
EndResult(p) ==
    /\ pc[p] = "end_result"
    /\ games' = [games EXCEPT ![loc[p].game_id] =
                    UpdateGameResult(@, loc[p].result, "finished")]
    /\ Goto(p, loc[p], "stats_first")
    /\ UNCHANGED <<users, moves, nextMessageId>>

\* db::update_player_stats, first UPDATE
StatsFirstStep(p) ==
    /\ pc[p] = "stats_first"
    /\ users' = StatsFirst(users, loc[p].game.white_user_id,
                           loc[p].game.black_user_id, loc[p].result)
    /\ Goto(p, loc[p], "stats_second")
    /\ UNCHANGED <<games, moves, nextMessageId>>

\* db::update_player_stats, second UPDATE; handle_move goes on to
\* update_game_fen, the others send the end message
StatsSecondStep(p) ==
    /\ pc[p] = "stats_second"
    /\ users' = StatsSecond(users, loc[p].game.white_user_id,
                            loc[p].game.black_user_id, loc[p].result)
    /\ IF loc[p].op = "move"
       THEN Goto(p, loc[p], "move_fen")
       ELSE Finish(p, "")
    /\ UNCHANGED <<games, moves, nextMessageId>>

\* telegram.send_message of a reply that ends the handler
SendReply(p) ==
    /\ pc[p] = "send_reply"
    /\ Finish(p, "")
    /\ UNCHANGED <<users, games, moves, nextMessageId>>

\* The statement task p is about to execute returns Err: `?` ends the handler
\* and process_update's caller logs the error; nothing is rolled back
Abort(p) ==
    /\ pc[p] # "idle"
    /\ Finish(p, "")
    /\ UNCHANGED <<users, games, moves, nextMessageId>>

\* ------------------------------------------------------------------------
\* Specifications
\* ------------------------------------------------------------------------
\* process_update: the dispatch of an update to its handler
ProcessUpdate(p) ==
    \/ HandleStartGame(p)
    \/ HandleMove(p)
    \/ HandleResign(p)
    \/ HandleDrawProposal(p)
    \/ HandleAcceptDraw(p)

\* A handler in flight executes its next statement
Step(p) ==
    \/ StartCreate(p)
    \/ StartInsert(p)
    \/ StartSend(p)
    \/ MoveClear(p)
    \/ MoveNumber(p)
    \/ MoveInsert(p)
    \/ MoveResult(p)
    \/ MoveFen(p)
    \/ MoveSend(p)
    \/ DrawPropose(p)
    \/ EndResult(p)
    \/ StatsFirstStep(p)
    \/ StatsSecondStep(p)
    \/ SendReply(p)

\* webhook_handler: every update is spawned as a task of its own.  Spec
\* follows one session: a /start arrives while no game exists, and the tasks
\* then serve the replies to its board messages concurrently.
FirstStart(p) ==
    /\ Len(games) = 0
    /\ \A q \in Procs : pc[q] = "idle"
    /\ HandleStartGame(p)

Reply(p) ==
    \/ HandleMove(p)
    \/ HandleResign(p)
    \/ HandleDrawProposal(p)
    \/ HandleAcceptDraw(p)

Next == \E p \in Procs : FirstStart(p) \/ Reply(p) \/ Step(p)

Spec == Init /\ [][Next]_vars

\* webhook_handler again: StartSpec follows the /start updates of all
\* sessions, served concurrently
StartStep(p) ==
    \/ StartCreate(p)
    \/ StartInsert(p)
    \/ StartSend(p)
    \/ SendReply(p)

StartNext == \E p \in Procs : HandleStartGame(p) \/ StartStep(p)

StartSpec == Init /\ [][StartNext]_vars

\* main: the polling loop awaits process_update before it takes the next
\* update, so one task serves all updates
MainTask == CHOOSE p \in Procs : TRUE

SeqNext == ProcessUpdate(MainTask) \/ Step(MainTask)

SeqSpec == Init /\ [][SeqNext]_vars

\* The polling loop again, for the sessions of one pair in two chats: the
\* pair starts games and ends them by resignation
VenueStart(p) ==
    \E chat \in Venues, from \in Starters, opp \in Starters :
        /\ StartRequest(p, chat, from, opp, "none")
        /\ pc'[p] = "start_create" => Len(games) < MaxVenueGames

VenueResign(p) ==
    \E chat \in Venues, from \in Starters, target \in SentMessages :
        ResignRequest(p, chat, from, target)

VenueNext ==
    \/ VenueStart(MainTask)
    \/ StartCreate(MainTask)
    \/ StartSend(MainTask)
    \/ SendReply(MainTask)
    \/ VenueResign(MainTask)
    \/ EndResult(MainTask)
    \/ StatsFirstStep(MainTask)
    \/ StatsSecondStep(MainTask)

VenueSpec == Init /\ [][VenueNext]_vars

\* The polling loop again, with statements that may fail
FailNext == SeqNext \/ Abort(MainTask)

FailSpec == Init /\ [][FailNext]_vars

\* A call of parse_move and, for the same arguments, of parse_san alone
ParseInit ==
    /\ users = <<>>
    /\ games = <<>>
    /\ moves = <<>>
    /\ nextMessageId = 1
    /\ pc = [p \in Procs |-> "idle"]
    /\ loc = [p \in Procs |-> NoLoc]
    /\ position \in Positions
    /\ input \in Tokens
    /\ outcome = NoOutcome
    /\ dirExists = FALSE
    /\ files = [path \in Paths |-> NoFile]
    /\ now = 0
    /\ lastHit = [path \in Paths |-> 0]
    /\ call = NoCall
    /\ threads = [t \in Procs |-> NoThread]
    /\ upsert = NoUpsert
    /\ webhook = [secret_token |-> NoSecret, served |-> <<>>]
    /\ router = NoUpdate

CallParseMove ==
    /\ outcome = NoOutcome
    /\ outcome' = [fn |-> "parse_move", res |-> ParseMoveText(position, input)]
    /\ UNCHANGED <<users, games, moves, nextMessageId, pc, loc, position, input>>
    /\ UNCHANGED <<cacheVars, otherVars>>

CallParseSan ==
    /\ outcome = NoOutcome
    /\ outcome' = [fn |-> "parse_san", res |-> ParseSan(position, input)]
    /\ UNCHANGED <<users, games, moves, nextMessageId, pc, loc, position, input>>
    /\ UNCHANGED <<cacheVars, otherVars>>

ParseNext == CallParseMove \/ CallParseSan

ParseSpec == ParseInit /\ [][ParseNext]_vars

\* ---- calls of game::cache::get_or_create, one at a time ----

\* The call returns `res` and leaves the directory as `fs`
Returns(board, flip_board, res, hit, fs, hits, env, evicted) ==
    /\ now' = now + 1
    /\ files' = fs
    /\ lastHit' = hits
    /\ call' = [done |-> TRUE, board |-> board, flip_board |-> flip_board, res |-> res,
                hit |-> hit, render_ok |-> env.render_ok, scanned |-> env.scan_ok,
                removals_ok |-> env.undeletable = {},
                undeletable |-> env.undeletable, evicted |-> evicted]

\* What the environment lets succeed during a call; a step the call does not
\* reach is written as succeeding
Environment(create_dir_ok, read_ok, render_ok, scan_ok, undeletable, write) ==
    [create_dir_ok |-> create_dir_ok, read_ok |-> read_ok, render_ok |-> render_ok,
     scan_ok |-> scan_ok, undeletable |-> undeletable, write |-> write]

\* get_or_create: the directory cannot be created
CreateDirFails(board, flip_board) ==
    /\ ~dirExists
    /\ dirExists' = FALSE
    /\ Returns(board, flip_board, ErrBytes, FALSE, files, lastHit,
               Environment(FALSE, TRUE, TRUE, TRUE, {}, "ok"), {})

\* get_or_create: the file exists and is read
CacheHit(board, flip_board) ==
    LET file_path == GetCachePath(board, flip_board) IN
    /\ files[file_path].exists
    /\ dirExists' = TRUE
    /\ Returns(board, flip_board, OkBytes(files[file_path].bytes), TRUE, files,
               [lastHit EXCEPT ![file_path] = now + 1],
               Environment(TRUE, TRUE, TRUE, TRUE, {}, "ok"), {})

\* get_or_create: no file, or a file that cannot be read, and render_fn fails
RenderFails(board, flip_board, read_ok) ==
    /\ dirExists' = TRUE
    /\ Returns(board, flip_board, ErrBytes, FALSE, files, lastHit,
               Environment(TRUE, read_ok, FALSE, TRUE, {}, "ok"), {})

\* get_or_create: no file, or a file that cannot be read; the image is
\* rendered, the eviction pass runs and the image is written
CacheMiss(board, flip_board, read_ok) ==
    \E scan_ok \in BOOLEAN, write \in {"ok", "cut short", "not created"} :
    \E undeletable \in (IF scan_ok /\ CalculateCacheSize(files) > MaxSizeBytes
                         THEN SUBSET Stored(files) ELSE {{}}) :
        LET file_path == GetCachePath(board, flip_board)
            bytes == Render(board, flip_board)
            evicted == IF scan_ok THEN CheckAndEvictIfNeeded(files, undeletable) ELSE {}
            kept == Without(files, evicted)
            written ==
                CASE write = "ok" -> [kept EXCEPT ![file_path] = File(bytes, now + 1)]
                  [] write = "cut short" ->
                        [kept EXCEPT ![file_path] = File(CutShort(bytes), now + 1)]
                  [] write = "not created" -> kept
            forgotten == [path \in Paths |->
                            IF written[path] = files[path] THEN lastHit[path] ELSE 0]
        IN
        /\ dirExists' = TRUE
        /\ Returns(board, flip_board, OkBytes(bytes), FALSE, written, forgotten,
                   Environment(TRUE, read_ok, TRUE, scan_ok, undeletable, write), evicted)

\* get_or_create
GetOrCreate ==
    \E board \in Boards, flip_board \in BOOLEAN :
        /\ now < MaxCalls
        /\ \/ CreateDirFails(board, flip_board)
           \/ CacheHit(board, flip_board)
           \/ \E read_ok \in BOOLEAN :
                 /\ read_ok <=> ~files[GetCachePath(board, flip_board)].exists
                 /\ \/ RenderFails(board, flip_board, read_ok)
                    \/ CacheMiss(board, flip_board, read_ok)
        /\ UNCHANGED <<users, games, moves, nextMessageId, pc, loc, resolverVars, otherVars,
                       threads>>

CacheNext == GetOrCreate

CacheSpec == Init /\ [][CacheNext]_vars

\* ---- get_or_create called from two threads ----
\* The handlers run as tasks of the multi-threaded runtime, so two calls of
\* render_board_png can run at the same time; every file system call of
\* get_or_create is a step of its own.

\* The thread goes on to statement `next`
Proceed(t, next) == threads' = [threads EXCEPT ![t].pc = next]

\* The path of the call of thread t
PathOf(t) == GetCachePath(threads[t].board, threads[t].flip_board)

\* get_or_create is entered; the directory is there or is created
BeginCall(t) ==
    \E board \in Boards, flip_board \in BOOLEAN :
        /\ threads[t].pc \in {"idle", "returned"}
        /\ now < MaxCalls
        /\ now' = now + 1
        /\ dirExists' = TRUE
        /\ threads' = [threads EXCEPT ![t] = [pc |-> "exists", board |-> board,
                                              flip_board |-> flip_board, res |-> ErrBytes]]
        /\ UNCHANGED <<files, lastHit, call>>

\* file_path.exists()
CheckExists(t) ==
    /\ threads[t].pc = "exists"
    /\ Proceed(t, IF files[PathOf(t)].exists THEN "read" ELSE "render")
    /\ UNCHANGED <<dirExists, files, now, lastHit, call>>

\* read_cached_image: read_to_end returns what the file holds now; a file
\* removed since the check is a miss
ReadCachedImage(t) ==
    /\ threads[t].pc = "read"
    /\ IF files[PathOf(t)].exists
       THEN threads' = [threads EXCEPT ![t].pc = "returned",
                                       ![t].res = OkBytes(files[PathOf(t)].bytes)]
       ELSE Proceed(t, "render")
    /\ UNCHANGED <<dirExists, files, now, lastHit, call>>

\* render_fn() and check_and_evict_if_needed
RenderAndEvict(t) ==
    /\ threads[t].pc = "render"
    /\ files' = Without(files, CheckAndEvictIfNeeded(files, {}))
    /\ Proceed(t, "create")
    /\ UNCHANGED <<dirExists, now, lastHit, call>>

\* fs::write, File::create: the file is there, truncated, and takes up the
\* image piece by piece
CreateFile(t) ==
    /\ threads[t].pc = "create"
    /\ files' = [files EXCEPT ![PathOf(t)] =
                    File(CutShort(Render(threads[t].board, threads[t].flip_board)), now)]
    /\ Proceed(t, "write")
    /\ UNCHANGED <<dirExists, now, lastHit, call>>

\* fs::write, write_all is through; Ok(bytes)
WriteAll(t) ==
    LET bytes == Render(threads[t].board, threads[t].flip_board) IN
    /\ threads[t].pc = "write"
    /\ files' = [files EXCEPT ![PathOf(t)] = File(bytes, now)]
    /\ threads' = [threads EXCEPT ![t].pc = "returned", ![t].res = OkBytes(bytes)]
    /\ UNCHANGED <<dirExists, now, lastHit, call>>

RaceNext ==
    /\ \E t \in Procs :
          \/ BeginCall(t)
          \/ CheckExists(t)
          \/ ReadCachedImage(t)
          \/ RenderAndEvict(t)
          \/ CreateFile(t)
          \/ WriteAll(t)
    /\ UNCHANGED <<users, games, moves, nextMessageId, pc, loc, resolverVars, otherVars>>

RaceSpec == Init /\ [][RaceNext]_vars

\* ---- calls of db::upsert_user and db::upsert_user_by_username ----

Usernames == {"ann", "bob"}

\* upsert_user(pool, user) of a user seen in an update
ObserveUser ==
    \E tg \in TgUsers, username \in Usernames \cup {NoName} :
        LET r == UpsertNamedUser(users, tg, username) IN
        /\ users' = r.users
        /\ upsert' = [fn |-> "upsert_user", telegram_id |-> tg, username |-> username,
                      ok |-> r.ok, id |-> IF r.ok THEN UserIdOf(r.users, tg) ELSE NULL]
        /\ UNCHANGED <<games, moves, nextMessageId, pc, loc, resolverVars, cacheVars,
                       webhook, router>>

\* upsert_user_by_username(pool, username) of an opponent named in /start
NameUser ==
    \E username \in Usernames :
        /\ users' = UpsertUserByUsername(users, username)
        /\ upsert' = [fn |-> "upsert_user_by_username", telegram_id |-> NULL,
                      username |-> username, ok |-> TRUE,
                      id |-> UserIdByUsername(users', username)]
        /\ UNCHANGED <<games, moves, nextMessageId, pc, loc, resolverVars, cacheVars,
                       webhook, router>>

IdentityNext == ObserveUser \/ NameUser

IdentitySpec == Init /\ [][IdentityNext]_vars

\* ---- the webhook server: server/mod.rs ----

StatusOk == 200
BadRequest == 400
Unauthorized == 401

\* The header X-Telegram-Bot-Api-Secret-Token of a request: missing, or bytes
\* that are visible ASCII text (HeaderValue::to_str is Ok) or are not
NoHeader == [present |-> FALSE, visible |-> FALSE, value |-> ""]
TextHeader(value) == [present |-> TRUE, visible |-> TRUE, value |-> value]
OpaqueHeader == [present |-> TRUE, visible |-> FALSE, value |-> ""]

Secrets == {"test-secret"}

Headers == {NoHeader, OpaqueHeader, TextHeader("test-secret"), TextHeader("wrong-secret")}

\* mutant: a header that is text passes, whatever its value
VerifySecretTokenMiddleware_NoCompare(secret_token, header) ==
    IF secret_token = NoSecret THEN StatusOk
    ELSE IF ~header.present THEN Unauthorized
    ELSE IF ~header.visible THEN BadRequest
    ELSE StatusOk

\* verify_secret_token_middleware: the status of its Err, StatusOk when it
\* runs the next layer
VerifySecretTokenMiddleware(secret_token, header) ==
    IF secret_token = NoSecret THEN StatusOk
    ELSE IF ~header.present THEN Unauthorized
    ELSE IF ~header.visible THEN BadRequest
    ELSE IF header.value # secret_token THEN Unauthorized
    ELSE StatusOk

\* start_webhook_server: the configuration the server runs with
WebhookInit ==
    /\ users = <<>> /\ games = <<>> /\ moves = <<>> /\ nextMessageId = 1
    /\ pc = [p \in Procs |-> "idle"] /\ loc = [p \in Procs |-> NoLoc]
    /\ position = NoPosition /\ input = <<>> /\ outcome = NoOutcome
    /\ dirExists = FALSE /\ files = [path \in Paths |-> NoFile] /\ now = 0
    /\ lastHit = [path \in Paths |-> 0] /\ call = NoCall
    /\ threads = [t \in Procs |-> NoThread]
    /\ upsert = NoUpsert
    /\ webhook \in [secret_token : Secrets \cup {NoSecret}, served : {<<>>}]
    /\ router = NoUpdate

\* A POST of an update to the webhook path: the middleware, then
\* webhook_handler, which spawns process_update and answers 200
ServeRequest ==
    \E header \in Headers :
        LET verdict == VerifySecretTokenMiddleware(webhook.secret_token, header) IN
        /\ Len(webhook.served) < MaxRequests
        /\ webhook' = [webhook EXCEPT !.served =
                          Append(@, [header |-> header, status |-> verdict,
                                     spawned |-> verdict = StatusOk])]
        /\ UNCHANGED <<users, games, moves, nextMessageId, pc, loc, resolverVars,
                       cacheVars, upsert, router>>

WebhookNext == ServeRequest

WebhookSpec == WebhookInit /\ [][WebhookNext]_vars





\* ------------------------------------------------------------------------
\* handlers/update_router.rs and parsing/mod.rs: the routing of an update
\* ------------------------------------------------------------------------
\* router  an update (is its sender a bot, does it reply to a message of a
\*         bot, its text) and, once process_update has run, the handler it
\*         was given to ("" for none) with the text passed on

\* state.bot_username
BotUsername == <<"t", "e", "s", "t", "b", "o", "t">>

\* The literals process_update compares the text with
Command ==
    [help |-> <<"/", "h", "e", "l", "p">>,
     history |-> <<"/", "h", "i", "s", "t", "o", "r", "y">>,
     start |-> <<"/", "s", "t", "a", "r", "t">>,
     resign |-> <<"/", "r", "e", "s", "i", "g", "n">>,
     draw |-> <<"/", "d", "r", "a", "w">>,
     accept |-> <<"/", "a", "c", "c", "e", "p", "t">>,
     acceptdraw |-> <<"/", "a", "c", "c", "e", "p", "t", "d", "r", "a", "w">>,
     move |-> <<"/", "m", "o", "v", "e">>]

\* str::eq_ignore_ascii_case
EqIgnoreAsciiCase(a, b) == ToLowercase(a) = ToLowercase(b)

\* str::starts_with
StartsWith(s, prefix) == Len(s) >= Len(prefix) /\ SubSeq(s, 1, Len(prefix)) = prefix

\* strip_bot_suffix
StripBotSuffix(text, bot_username) ==
    LET trimmed == Trim(text)
        at_pos == Find(trimmed, "@")
    IN  IF at_pos > 0 /\ EqIgnoreAsciiCase(SubSeq(trimmed, at_pos + 1, Len(trimmed)),
                                           bot_username)
        THEN SubSeq(trimmed, 1, at_pos - 1)
        ELSE trimmed

\* command_matches
CommandMatches(text, command, bot_username) ==
    EqIgnoreAsciiCase(StripBotSuffix(text, bot_username), command)

\* str::split_whitespace
RECURSIVE SplitWhitespace(_)
SplitWhitespace(s) ==
    LET t == TrimStart(s)
        n == Find(t, " ")
    IN  IF t = <<>> THEN <<>>
        ELSE IF n = 0 THEN <<t>>
        ELSE <<SubSeq(t, 1, n - 1)>> \o SplitWhitespace(SubSeq(t, n + 1, Len(t)))

\* char::is_alphanumeric on ASCII
IsAlphanumeric(c) == Occurs(LowerCase, c) \/ Occurs(UpperCase, c) \/ Occurs(Digits, c)

\* extract_move: token.trim_matches(..) keeps letters, digits and - + # =
RECURSIVE TrimToken(_)
TrimToken(token) ==
    LET kept(c) == IsAlphanumeric(c) \/ c \in {"-", "+", "#", "="} IN
    IF token = <<>> THEN token
    ELSE IF ~kept(token[1]) THEN TrimToken(Tail(token))
    ELSE IF ~kept(token[Len(token)]) THEN TrimToken(SubSeq(token, 1, Len(token) - 1))
    ELSE token

\* is_move_candidate
IsMoveCandidate(token) ==
    /\ Len(token) \in 2..7
    /\ \/ \E castling \in {<<"O", "-", "O">>, <<"O", "-", "O", "-", "O">>,
                            <<"o", "o">>, <<"o", "o", "o">>} :
             EqIgnoreAsciiCase(token, castling)
       \/ token \in {<<"0", "-", "0">>, <<"0", "-", "0", "-", "0">>, <<"0", "0">>, <<"0", "0", "0">>}
       \/ /\ \A i \in 1..Len(token) :
                IsAlphanumeric(token[i]) \/ token[i] \in {"-", "+", "#", "=", "x", "X"}
          /\ \E i \in 1..Len(token) : IsAsciiDigit(token[i])
          /\ \/ ToAsciiUppercase(token[1]) \in {"K", "Q", "R", "B", "N"}
             \/ ToAsciiLowercase(token[1]) \in FileNames

\* extract_move of parsing/mod.rs on ASCII text: the last token that is a
\* move candidate, <<>> for None
RECURSIVE LastCandidate(_)
LastCandidate(tokens) ==
    IF tokens = <<>> THEN <<>>
    ELSE IF IsMoveCandidate(TrimToken(tokens[Len(tokens)]))
    THEN TrimToken(tokens[Len(tokens)])
    ELSE LastCandidate(SubSeq(tokens, 1, Len(tokens) - 1))

ExtractMoveFromText(text) == LastCandidate(SplitWhitespace(text))

\* process_update: the handler the update is given to and the text it gets
Dispatch(from_is_bot, replied_to_bot, text, bot_username) ==
    IF from_is_bot THEN Call("", <<>>)
    ELSE IF StartsWith(text, Command.help) THEN Call("handle_help", <<>>)
    ELSE IF StartsWith(text, Command.history) THEN Call("handle_history", text)
    ELSE IF StartsWith(text, Command.start) THEN Call("handle_start_game", text)
    ELSE IF ~replied_to_bot THEN Call("", <<>>)
    ELSE IF CommandMatches(text, Command.resign, bot_username)
    THEN Call("handle_resign", <<>>)
    ELSE IF CommandMatches(text, Command.draw, bot_username)
    THEN Call("handle_draw_proposal", <<>>)
    ELSE IF \/ CommandMatches(text, Command.accept, bot_username)
            \/ CommandMatches(text, Command.acceptdraw, bot_username)
    THEN Call("handle_accept_draw", <<>>)
    ELSE IF StartsWith(text, Command.move)
    THEN LET move_text == StripBotSuffix(text, bot_username)
             move_part == Trim(SubSeq(move_text, Len(Command.move) + 1, Len(move_text)))
         IN  IF move_part # <<>> THEN Call("handle_move", move_part)
             ELSE Call("handle_move", text)
    ELSE Call("handle_move", text)

\* The texts of the updates: a command or a move, with or without the name
\* of a bot, with or without a move after it
RouterTexts ==
    {opener \o suffix \o rest :
        opener \in {Command.resign, Command.draw, Command.accept, Command.acceptdraw,
                    Command.move, Command.start,
                    <<"/", "R", "E", "S", "I", "G", "N">>, <<"e", "4">>},
        suffix \in {<<>>, <<"@", "t", "e", "s", "t", "b", "o", "t">>,
                    <<"@", "T", "e", "s", "t", "B", "o", "t">>,
                    <<"@", "o", "t", "h", "e", "r", "b", "o", "t">>},
        rest \in {<<>>, <<" ", "e", "4">>, <<" ">>}}

RouterInit ==
    /\ users = <<>>
    /\ games = <<>>
    /\ moves = <<>>
    /\ nextMessageId = 1
    /\ pc = [p \in Procs |-> "idle"]
    /\ loc = [p \in Procs |-> NoLoc]
    /\ position = NoPosition
    /\ input = <<>>
    /\ outcome = NoOutcome
    /\ dirExists = FALSE
    /\ files = [path \in Paths |-> NoFile]
    /\ now = 0
    /\ lastHit = [path \in Paths |-> 0]
    /\ call = NoCall
    /\ threads = [t \in Procs |-> NoThread]
    /\ upsert = NoUpsert
    /\ webhook = [secret_token |-> NoSecret, served |-> <<>>]
    /\ router \in [from_is_bot : BOOLEAN, replied_to_bot : BOOLEAN,
                   text : RouterTexts, routed : {NoRouting}]

\* process_update on the update
RouteUpdate ==
    /\ router.routed = NoRouting
    /\ router' = [router EXCEPT !.routed =
                     Dispatch(router.from_is_bot, router.replied_to_bot, router.text,
                              BotUsername)]
    /\ UNCHANGED <<users, games, moves, nextMessageId, pc, loc, resolverVars, cacheVars,
                   upsert, webhook>>

RouterNext == RouteUpdate

RouterSpec == RouterInit /\ [][RouterNext]_vars

\* ------------------------------------------------------------------------
\* Claims
\* ------------------------------------------------------------------------
GameIds == 1..Len(games)

\* The participant whose colour is to move in the stored position of row
ToMove(row) ==
    IF SideToMove(row.current_fen) = "White" THEN row.white_user_id
    ELSE row.black_user_id

\* Task p takes the last step of a handler of kind op
Completes(p, op) == loc[p].op = op /\ pc[p] # "idle" /\ pc'[p] = "idle"

\* The handler that finished game g still runs its trailing statements
Finishing(g) ==
    \E q \in Procs : /\ pc[q] \in {"stats_first", "stats_second", "move_fen"}
                     /\ loc[q].game_id = g

\* An update arrives at task p: p is idle and the step, which changes the
\* state, is p's alone
Arrives(p) ==
    /\ pc[p] = "idle"
    /\ vars' # vars
    /\ \A q \in Procs \ {p} : pc'[q] = pc[q] /\ loc'[q] = loc[q]

\* A reply to the last board message of session g is routed to g
Addressed(g) ==
    /\ games[g].chat_id \in Chats
    /\ games[g].last_message_id \in SentMessages
    /\ FindGameByMessage(games, games[g].chat_id, games[g].last_message_id) = g

\* A Move, Resign, ProposeDraw or AcceptDraw update arrives at task p
TargetedRequest(p, chat, from, target) ==
    \/ \E text \in Texts : MoveRequest(p, chat, from, target, text)
    \/ ResignRequest(p, chat, from, target)
    \/ DrawRequest(p, chat, from, target)
    \/ AcceptRequest(p, chat, from, target)

\* C1: with updates handled one at a time, a Finished session never changes
\* again, and every Move, Resign, ProposeDraw or AcceptDraw that targets it,
\* from any sender, returns at once: row, move log and all counters are
\* unchanged.
C1_TerminalAbsorption ==
    [][\A g \in GameIds : games[g].status = "finished" =>
          /\ ~Finishing(g) => (games'[g] = games[g] /\ moves'[g] = moves[g])
          /\ Addressed(g) =>
                \A p \in Procs : Arrives(p) => \A from \in TgUsers :
                TargetedRequest(p, games[g].chat_id, from, games[g].last_message_id)
                => (/\ pc'[p] = "idle"
                    /\ users' = users /\ games' = games /\ moves' = moves)]_vars

\* C1 witness: a Finished session that a reply can still target, at a moment
\* when the next update is taken
C1_Witness ==
    \E g \in GameIds :
        /\ games[g].status = "finished"
        /\ FindGameByMessage(games, games[g].chat_id, games[g].last_message_id) = g
        /\ \A p \in Procs : pc[p] = "idle"

\* C2: a move that gives checkmate finishes the session with the mover as
\* winner (1-0 when white moved, 0-1 when black moved), a move that gives
\* stalemate finishes it as a draw.
C2_MateWinner ==
    \A p \in Procs :
        (pc[p] = "move_fen" /\ BoardStatus(loc[p].next_board) # "Ongoing") =>
            LET row == games[loc[p].game_id] IN
            /\ row.status = "finished"
            /\ BoardStatus(loc[p].next_board) = "Checkmate" =>
                  row.result = IF loc[p].player = row.white_user_id THEN "1-0" ELSE "0-1"
            /\ BoardStatus(loc[p].next_board) = "Stalemate" => row.result = "1/2-1/2"

\* C3: at most one Ongoing session per unordered pair of participants and
\* chat, also when /start handlers run concurrently.
C3_OneOngoingPerPair ==
    \A chat \in Chats, a \in 1..Len(users), b \in 1..Len(users) :
        Cardinality(OngoingGamesOf(games, chat, a, b)) <= 1

RECURSIVE CountersUpTo(_)
CountersUpTo(n) ==
    IF n = 0 THEN 0
    ELSE users[n].wins + users[n].losses + users[n].draws + CountersUpTo(n - 1)

\* C4: the statistics update is applied at most once per session: the
\* counters of all users together never exceed two per Finished session.
C4_StatsOnce ==
    CountersUpTo(Len(users)) <=
        2 * Cardinality({g \in GameIds : games[g].status = "finished"})

\* C5: a move is accepted only from the participant whose colour is to move in
\* the stored position; the other participant gets the turn-violation reply
\* and neither the move log nor the row changes.
C5_TurnEnforced ==
    [][/\ \A g \in GameIds : (games[g].status = "ongoing" /\ Addressed(g)) =>
            \A p \in Procs : Arrives(p) => \A from \in TgUsers, text \in Moves :
            MoveRequest(p, games[g].chat_id, from, games[g].last_message_id, text)
            => LET player == UserIdOf(users', from) IN
               /\ pc'[p] \notin {"idle", "send_reply"} => player = ToMove(games[g])
               /\ (player \in {games[g].white_user_id, games[g].black_user_id}
                     /\ player # ToMove(games[g]))
                  => (/\ pc'[p] = "send_reply"
                      /\ loc'[p].reply = "NotYourTurn"
                      /\ games' = games /\ moves' = moves)
       /\ \A p \in Procs :
            (pc[p] = "move_insert" /\ pc'[p] # "move_insert")
            => loc[p].player = ToMove(games[loc[p].game_id])]_vars

\* C5 witness: the participant not on turn has just been refused
C5_Witness ==
    \E p \in Procs : pc[p] = "send_reply" /\ loc[p].reply = "NotYourTurn"

\* C6: a successful move leaves the stored position with the other side to
\* move, or the session Finished.
C6_TurnAlternation ==
    [][\A p \in Procs : Completes(p, "move") =>
          LET g == loc[p].game_id IN
          \/ games'[g].status = "finished"
          \/ SideToMove(games'[g].current_fen) # SideToMove(loc[p].game.current_fen)]_vars

\* C6 witness: a move that does not end the game is about to complete
C6_Witness ==
    \E p \in Procs : pc[p] = "move_send" /\ games[loc[p].game_id].status = "ongoing"

\* C7: after a successful move the session has no pending draw proposal.
C7_MoveClearsProposal ==
    [][\A p \in Procs : Completes(p, "move") =>
          games'[loc[p].game_id].draw_proposed_by = NULL]_vars

\* C7 witness: a move played over a pending proposal is about to complete with
\* the game going on
C7_Witness ==
    \E p \in Procs : /\ pc[p] = "move_send"
                     /\ loc[p].game.draw_proposed_by # NULL
                     /\ games[loc[p].game_id].status = "ongoing"

\* C8: /accept by a participant of an Ongoing session is refused with "no
\* proposal pending" when none is pending and with "own proposal" when the
\* sender proposed; the row, the log and the counters stay as they are.
C8_AcceptRefused ==
    [][\A g \in GameIds : (games[g].status = "ongoing" /\ Addressed(g)) =>
          \A p \in Procs : Arrives(p) => \A from \in TgUsers :
          LET player == UserIdOf(users, from) IN
          (/\ player # NULL
           /\ player \in {games[g].white_user_id, games[g].black_user_id}
           /\ games[g].draw_proposed_by \in {NULL, player}
           /\ AcceptRequest(p, games[g].chat_id, from, games[g].last_message_id))
          => (/\ pc'[p] = "send_reply"
              /\ loc'[p].reply = IF games[g].draw_proposed_by = NULL
                                 THEN "NoProposal" ELSE "OwnProposal"
              /\ users' = users /\ games' = games /\ moves' = moves)]_vars

\* C8 witness: the proposer has just been refused to accept the own proposal
C8_Witness ==
    \E p \in Procs : pc[p] = "send_reply" /\ loc[p].reply = "OwnProposal"

\* C9: /accept by the participant who did not propose, while a proposal is
\* pending, is carried out and leaves the session Finished as a draw with no
\* pending proposal.
C9_AcceptDraws ==
    [][/\ \A g \in GameIds : (games[g].status = "ongoing" /\ Addressed(g)) =>
            \A p \in Procs : Arrives(p) => \A from \in TgUsers :
            LET player == UserIdOf(users, from) IN
            (/\ player # NULL
             /\ player \in {games[g].white_user_id, games[g].black_user_id}
             /\ games[g].draw_proposed_by \notin {NULL, player}
             /\ AcceptRequest(p, games[g].chat_id, from, games[g].last_message_id))
            => pc'[p] = "end_result"
       /\ \A p \in Procs : Completes(p, "accept") =>
            LET row == games'[loc[p].game_id] IN
            /\ row.status = "finished"
            /\ row.result = "1/2-1/2"
            /\ row.draw_proposed_by = NULL]_vars

\* C9 witness: an accepted draw has been written and the handler completes
C9_Witness ==
    \E p \in Procs : /\ pc[p] = "stats_second"
                     /\ loc[p].op = "accept"
                     /\ games[loc[p].game_id].status = "finished"

\* C10: /resign by a participant of an Ongoing session is carried out whoever
\* is to move and whether or not a draw is proposed; it leaves the session
\* Finished, won by the other participant, with no pending proposal.
C10_ResignLoses ==
    [][/\ \A g \in GameIds : (games[g].status = "ongoing" /\ Addressed(g)) =>
            \A p \in Procs : Arrives(p) => \A from \in TgUsers :
            LET player == UserIdOf(users, from) IN
            (/\ player # NULL
             /\ player \in {games[g].white_user_id, games[g].black_user_id}
             /\ ResignRequest(p, games[g].chat_id, from, games[g].last_message_id))
            => pc'[p] = "end_result"
       /\ \A p \in Procs : Completes(p, "resign") =>
            LET row == games'[loc[p].game_id] IN
            /\ row.status = "finished"
            /\ row.result = IF loc[p].player = row.white_user_id THEN "0-1" ELSE "1-0"
            /\ row.draw_proposed_by = NULL]_vars

\* C10 witness: a participant who is not to move resigned over a pending
\* proposal, and the handler completes
C10_Witness ==
    \E p \in Procs : /\ pc[p] = "stats_second"
                     /\ loc[p].op = "resign"
                     /\ loc[p].game.draw_proposed_by # NULL
                     /\ loc[p].player # ToMove(loc[p].game)
                     /\ games[loc[p].game_id].status = "finished"

\* The request that arrived at p is refused: its handler ends, at once or with
\* a reply, and the tables games and moves are as they were
Refused(p) ==
    /\ pc'[p] \in {"idle", "send_reply"}
    /\ games' = games /\ moves' = moves

\* C11: a refused operation leaves the session as it was: a Move, Resign,
\* ProposeDraw or AcceptDraw of a non-participant, a move of the participant
\* not on turn and a move whose text names no legal move end without a write
\* to the row or the move log, so a pending proposal stays pending.
C11_RefusalsKeepSession ==
    [][/\ \A g \in GameIds : (games[g].status = "ongoing" /\ Addressed(g)) =>
            \A p \in Procs : Arrives(p) => \A from \in TgUsers :
            LET player == UserIdOf(users', from)
                chat == games[g].chat_id
                target == games[g].last_message_id
                participant == player \in {games[g].white_user_id, games[g].black_user_id}
            IN  /\ (~participant /\ TargetedRequest(p, chat, from, target))
                      => Refused(p)
                /\ \A text \in Moves :
                      (/\ participant
                       /\ \/ player # ToMove(games[g])
                          \/ text \notin LegalMoves(games[g].current_fen)
                       /\ MoveRequest(p, chat, from, target, text))
                      => Refused(p)
       /\ \A p \in Procs : pc[p] = "send_reply" => (games' = games /\ moves' = moves)]_vars

\* C11 witness: a move that names no legal move has just been refused while a
\* draw proposal is pending
C11_Witness ==
    \E p \in Procs, g \in GameIds :
        /\ pc[p] = "send_reply" /\ loc[p].reply = "InvalidMove"
        /\ games[g].status = "ongoing"
        /\ games[g].draw_proposed_by # NULL

\* C12: an operation that a failing statement aborts leaves the visible state
\* as it was when the operation began: an aborted /start has created no row,
\* and for an aborted reply the row is the row its handler read and the move
\* log has no row more than it had.
C12_AbortRestores ==
    [][\A p \in Procs : (pc[p] \notin {"idle", "send_reply"} /\ Abort(p)) =>
          IF loc[p].op = "start"
          THEN loc[p].game_id = NULL
          ELSE LET g == loc[p].game_id IN
               /\ games[g] = loc[p].game
               /\ loc[p].move_number # 0 =>
                     NextMoveNumber(moves[g]) = loc[p].move_number]_vars

\* The rows of the pair a, b in gs
GamesOfPair(gs, a, b) ==
    {g \in 1..Len(gs) : {gs[g].white_user_id, gs[g].black_user_id} = {a, b}}

\* C13: a /start is refused, creating no row and changing none, when the
\* opponent is the sender or when the pair has an ongoing game in the chat;
\* otherwise it goes on to create the game, whatever games the pair has
\* in other chats and whatever finished games it has in this chat.
C13_StartRefusals ==
    [][/\ \A p \in Procs : Arrives(p) =>
            \A chat \in Venues, from \in Starters, opp \in Starters :
            StartRequest(p, chat, from, opp, "none") =>
            LET a == UserIdOf(users', from)
                b == UserIdOf(users', opp)
                blocked == \/ a = b
                           \/ \E g \in GamesOfPair(games, a, b) :
                                 games[g].chat_id = chat /\ games[g].status = "ongoing"
            IN  IF blocked
                THEN pc'[p] = "send_reply" /\ games' = games /\ moves' = moves
                ELSE pc'[p] = "start_create"
       /\ \A p \in Procs : pc[p] = "send_reply" => (games' = games /\ moves' = moves)]_vars

\* C13 witness: a /start of the pair has passed the checks while the pair has
\* a finished game in the same chat and an ongoing game in the other chat
C13_Witness ==
    \E p \in Procs :
        /\ pc[p] = "start_create"
        /\ LET a == loc[p].game.white_user_id
               b == loc[p].game.black_user_id
           IN  /\ \E g \in GamesOfPair(games, a, b) :
                     /\ games[g].chat_id = loc[p].game.chat_id
                     /\ games[g].status = "finished"
               /\ \E g \in GamesOfPair(games, a, b) :
                     /\ games[g].chat_id # loc[p].game.chat_id
                     /\ games[g].status = "ongoing"

\* ---- MoveResolver ----

\* parse_move has returned
Resolved == outcome.fn = "parse_move"

\* C14: a move that parse_move or parse_san returns is a legal move of the
\* position, whichever path found it.
C14_ResolvedIsLegal ==
    (outcome.fn # "" /\ outcome.res.ok) => outcome.res.mv \in NewLegal(position)

\* C14 witness: a castling text has been resolved to the king's move
C14_Witness ==
    /\ Resolved /\ outcome.res.ok
    /\ input = <<"O", "-", "O">>
    /\ outcome.res.mv = CastlingMove(position.side, FALSE)

\* The king's two-square move
IsCastling(man) ==
    man.piece = "King" /\ man.mv.source[1] = "e" /\ man.mv.dest[1] \in {"g", "c"}

\* The source characters minimally disambiguated SAN writes for a piece move
MinimalSource(board, man) ==
    LET rivals == {r \in board.men : /\ r.piece = man.piece
                                      /\ r.mv.dest = man.mv.dest
                                      /\ r.mv.source # man.mv.source}
    IN  IF rivals = {} THEN <<>>
        ELSE IF \A r \in rivals : r.mv.source[1] # man.mv.source[1]
        THEN <<man.mv.source[1]>>
        ELSE IF \A r \in rivals : r.mv.source[2] # man.mv.source[2]
        THEN <<man.mv.source[2]>>
        ELSE man.mv.source

\* SAN, minimally disambiguated, of a legal move of the board
SanOf(board, man) ==
    IF IsCastling(man)
    THEN {IF man.mv.dest[1] = "g" THEN <<"O", "-", "O">> ELSE <<"O", "-", "O", "-", "O">>}
    ELSE IF man.piece = "Pawn"
    THEN {t \in PawnSan(man) : man.mv.promotion # "" => Occurs(t, "=")}
    ELSE PieceSan(man, MinimalSource(board, man))

\* C15: every legal move of the position, written in SAN (minimally
\* disambiguated, a pawn capture with its source file) or in full coordinate
\* notation, is resolved to that move.
C15_NotationEquivalence ==
    Resolved =>
        \A man \in position.men :
            input \in SanOf(position, man) \cup {Coordinates(man.mv)}
            => outcome.res = Ok(man.mv)

\* A text of the form source square, destination square, promotion letter
IsCoordinateText(t) ==
    /\ Len(t) \in {4, 5}
    /\ SubSeq(t, 1, 2) \in FileNames \X RankNames
    /\ SubSeq(t, 3, 4) \in FileNames \X RankNames
    /\ Len(t) = 5 => t[5] \in {"q", "r", "b", "n"}

\* The move a coordinate text names
CoordinateMove(t) ==
    ChessMove(SubSeq(t, 1, 2), SubSeq(t, 3, 4),
              IF Len(t) = 4 THEN ""
              ELSE CASE t[5] = "q" -> "Queen" [] t[5] = "r" -> "Rook"
                     [] t[5] = "b" -> "Bishop" [] t[5] = "n" -> "Knight")

\* C16: a coordinate text of four or five characters is resolved to the move
\* it names or to an error, never to another move.
C16_CoordinateExact ==
    (Resolved /\ IsCoordinateText(input)) =>
        /\ outcome.res.ok => outcome.res.mv = CoordinateMove(input)
        /\ CoordinateMove(input) \notin NewLegal(position) => ~outcome.res.ok

\* C17: every castling alias is resolved to the king's two-square move of its
\* side when that move is legal, and to an error when it is not.
C17_CastlingAliases ==
    Resolved =>
        \A queenside \in BOOLEAN :
            input \in (IF queenside THEN QueensideAliases ELSE KingsideAliases) =>
            IF CastlingMove(position.side, queenside) \in NewLegal(position)
            THEN outcome.res = Ok(CastlingMove(position.side, queenside))
            ELSE ~outcome.res.ok

\* A text of the form piece letter, source characters, destination square
IsPieceSan(t) ==
    /\ Len(t) \in 3..5
    /\ t[1] \in {"K", "Q", "R", "B", "N"}
    /\ SubSeq(t, Len(t) - 1, Len(t)) \in FileNames \X RankNames
    /\ LET d == SubSeq(t, 2, Len(t) - 2) IN
       \/ d = <<>>
       \/ Len(d) = 1 /\ d[1] \in FileNames \cup RankNames
       \/ d \in FileNames \X RankNames

\* The legal moves a piece SAN text names: moves of the named piece to the
\* destination from the file, the rank or the square it gives
Named(board, t) ==
    LET d == SubSeq(t, 2, Len(t) - 2) IN
    {man.mv : man \in {x \in board.men :
        /\ x.piece # "Pawn" /\ PieceLetter(x.piece) = t[1]
        /\ x.mv.dest = SubSeq(t, Len(t) - 1, Len(t))
        /\ \/ d = <<>>
           \/ Len(d) = 1 /\ d[1] \in {x.mv.source[1], x.mv.source[2]}
           \/ d = x.mv.source}}

\* C18: the source characters of a piece SAN text restrict the candidates: a
\* file letter to the moves from that file, a rank digit to the moves from
\* that rank, a square to the move from that square.  parse_san succeeds
\* exactly when one move is left, and parse_move returns that move.
C18_SanDisambiguation ==
    (outcome.fn # "" /\ IsPieceSan(input) /\ Len(input) > 3) =>
        /\ outcome.fn = "parse_san" =>
              /\ outcome.res.ok <=> Cardinality(Named(position, input)) = 1
              /\ outcome.res.ok => outcome.res.mv \in Named(position, input)
        /\ (Resolved /\ Cardinality(Named(position, input)) = 1) =>
              outcome.res.ok /\ outcome.res.mv \in Named(position, input)

\* C18 witness: two knights can reach d7 and Nbd7 has been resolved to the
\* move of the knight on the b-file
C18_Witness ==
    /\ Resolved
    /\ input = <<"N", "b", "d", "7">>
    /\ Cardinality(Named(position, <<"N", "d", "7">>)) = 2
    /\ outcome.res = Ok(ChessMove(<<"b", "8">>, <<"d", "7">>, ""))

\* C19: when more than one legal move matches a piece SAN text the caller of
\* parse_move gets the error that asks for disambiguation, and not that error
\* when no move matches.
C19_AmbiguityReported ==
    (Resolved /\ IsPieceSan(input)) =>
        /\ Cardinality(Named(position, input)) > 1 =>
              ~outcome.res.ok /\ outcome.res.err = "AmbiguousSan"
        /\ (Named(position, input) = {} /\ ~outcome.res.ok) =>
              outcome.res.err # "AmbiguousSan"

\* C20: a text that is only a destination square is resolved to a pawn move
\* or to an error, never to the move of another piece.
C20_BareDestinationIsPawn ==
    (Resolved /\ input \in FileNames \X RankNames /\ outcome.res.ok) =>
        PieceOn(position, outcome.res.mv.source) = "Pawn"

\* The moves of the position to a square
MovesTo(board, dest) == {m \in NewLegal(board) : m.dest = dest}

\* parse_san has failed on the text and parse_move goes on to its fallback
FallsBack(board, text) == ~ParseSan(board, Trim(text)).ok

CleanMiss ==
    call.done /\ call.res.ok /\ ~call.hit /\ call.scanned /\ call.removals_ok

\* C22: get_or_create returns, for a board and an orientation, the bytes the
\* render function produces for them, on a hit as on a miss.
C22_ReturnsRendered ==
    (call.done /\ call.res.ok) => call.res.bytes = Render(call.board, call.flip_board)

\* C23: when the render function succeeds get_or_create returns bytes, the
\* rendered ones on a miss, whatever step of the cache fails.
C23_FallsBackToRender ==
    (call.done /\ call.render_ok) =>
        /\ call.res.ok
        /\ ~call.hit => call.res.bytes = Render(call.board, call.flip_board)

\* The files of `fs` older than the file at `path`
Older(fs, path) == {x \in Stored(fs) : fs[x].mtime < fs[path].mtime}

\* C24: an eviction pass over files of more than the budget, with every
\* removal succeeding, leaves at most 80% of the budget, removes only files
\* with no older file left, and removes no file once the older ones removed
\* have brought the total to 80% of the budget.
C24_EvictionPass ==
    [][(CleanMiss' /\ CalculateCacheSize(files) > MaxSizeBytes) =>
        /\ CalculateCacheSize(Without(files, call'.evicted)) * 100
              <= MaxSizeBytes * EvictionTargetPercent
        /\ \A a \in call'.evicted : Older(files, a) \subseteq call'.evicted
        /\ \A a \in call'.evicted :
              CalculateCacheSize(Without(files, Older(files, a))) * 100
                 > MaxSizeBytes * EvictionTargetPercent]_vars

\* C24 witness: a pass has removed files and left a file written before it
C24_Witness ==
    /\ CleanMiss /\ call.evicted # {}
    /\ \E path \in Stored(files) : files[path].mtime < now

\* C25: when a call of get_or_create has returned and every removal of its
\* eviction pass succeeded, the files total at most the budget.
C25_WithinBudget ==
    (call.done /\ call.scanned /\ call.removals_ok) =>
        CalculateCacheSize(files) <= MaxSizeBytes

\* The time the file at `path` was last written or returned by a hit
LastUse(fs, hits, path) == IF hits[path] > fs[path].mtime THEN hits[path] ELSE fs[path].mtime

\* C26: a file returned by a hit more recently than another file was last
\* used is not evicted while the other file is left.
C26_LeastRecentlyUsedFirst ==
    [][CleanMiss' =>
        \A a \in call'.evicted : \A b \in Stored(files) \ call'.evicted :
            lastHit[a] <= LastUse(files, lastHit, b)]_vars

\* ---- Identity ----

\* The id of the row that holds the username and no Telegram id, NULL when
\* there is none
Placeholder(us, username) ==
    IF \E i \in 1..Len(us) : us[i].username = username /\ us[i].telegram_id = NULL
    THEN CHOOSE i \in 1..Len(us) : us[i].username = username /\ us[i].telegram_id = NULL
    ELSE NULL

\* C27: when a row holds a username and no Telegram id, upsert_user of the
\* user with that username returns that row, now holding the Telegram id, and
\* adds no row.
C27_PlaceholderMerged ==
    [][(upsert'.fn = "upsert_user" /\ Placeholder(users, upsert'.username) # NULL) =>
          /\ upsert'.ok
          /\ upsert'.id = Placeholder(users, upsert'.username)
          /\ users'[upsert'.id].telegram_id = upsert'.telegram_id
          /\ Len(users') = Len(users)]_vars

\* ---- Webhook ----

\* The header carries the text `secret_token`
Carries(header, secret_token) ==
    header.present /\ header.visible /\ header.value = secret_token

\* C28, as stated: with a secret token configured, a request whose header is
\* missing or is not the token is answered 401 and no process_update is
\* spawned for it; with none configured every request is accepted.
C28_Unauthorized ==
    \A i \in 1..Len(webhook.served) :
        LET request == webhook.served[i] IN
        IF webhook.secret_token # NoSecret /\ ~Carries(request.header, webhook.secret_token)
        THEN request.status = Unauthorized /\ ~request.spawned
        ELSE request.status = StatusOk /\ request.spawned

\* C28, amended: with a secret token configured, a request whose header is
\* missing or is a text other than the token is answered 401, one whose
\* header is not visible ASCII text is answered 400, and for neither is
\* process_update spawned; with none configured every request is accepted.
C28_Rejected ==
    \A i \in 1..Len(webhook.served) :
        LET request == webhook.served[i] IN
        IF webhook.secret_token # NoSecret /\ ~Carries(request.header, webhook.secret_token)
        THEN /\ ~request.spawned
             /\ request.status =
                   IF request.header.present /\ ~request.header.visible
                   THEN BadRequest ELSE Unauthorized
        ELSE request.status = StatusOk /\ request.spawned

\* C28 witness: a server with a secret token has refused a request with
\* another token and a request without the header, and accepted one with
\* the token
C28_Witness ==
    /\ webhook.secret_token # NoSecret
    /\ \E i, j, k \in 1..Len(webhook.served) :
          /\ webhook.served[i].header = TextHeader("wrong-secret")
          /\ webhook.served[i].status = Unauthorized
          /\ webhook.served[j].header = NoHeader /\ ~webhook.served[j].spawned
          /\ webhook.served[k].spawned

\* ---- Board messages ----

\* C29: when a newer board message of a session supersedes an older one, a
\* reply to the older message is still routed to the session, as is a reply
\* to the newer one.
C29_AnyBoardMessage ==
    [][\A g \in GameIds :
         (games[g].last_message_id # NULL
            /\ games'[g].last_message_id # games[g].last_message_id) =>
         /\ FindGameByMessage(games', games[g].chat_id, games[g].last_message_id) = g
         /\ FindGameByMessage(games', games[g].chat_id, games'[g].last_message_id) = g]_vars

\* ---- Concurrent moves ----

\* Task p commits a move to the log of its game
CommitsMove(p) == pc[p] = "move_insert" /\ pc'[p] # "move_insert"

\* C30: under concurrent handling, every move inserted into the log of a
\* game was sent by the participant whose colour is to move in the position
\* the game's row holds when the move is inserted.
C30_MoverHasTurn ==
    [][\A p \in Procs :
         CommitsMove(p) =>
            loc[p].player = ExpectedId(games[loc[p].game_id],
                                       games[loc[p].game_id].current_fen)]_vars

\* ---- Draw proposals, move numbers, statistics ----

\* The participant of row other than player
Opponent(row, player) ==
    IF player = row.white_user_id THEN row.black_user_id ELSE row.white_user_id

\* C31: a draw proposal by a participant of an Ongoing session makes the
\* sender the pending proposer, whatever proposal was pending before: the
\* other participant can then accept and the sender cannot.
C31_LaterProposalReplaces ==
    [][\A p \in Procs : Completes(p, "draw") =>
          LET row == games'[loc[p].game_id] IN
          /\ row.draw_proposed_by = loc[p].player
          /\ AcceptCheck(row, loc[p].player) = "OwnProposal"
          /\ AcceptCheck(row, Opponent(row, loc[p].player)) = ""]_vars

\* C31 witness: a participant is about to propose while the proposal of the
\* other participant is pending
C31_Witness ==
    \E p \in Procs : /\ pc[p] = "draw_propose"
                     /\ games[loc[p].game_id].status = "ongoing"
                     /\ games[loc[p].game_id].draw_proposed_by
                            = Opponent(loc[p].game, loc[p].player)

\* The numbers of log are 1, 2, ... in the order of insertion
Sequential(log) == \A i \in 1..Len(log) : log[i].move_number = i

\* C32: with updates handled one at a time the move log of a session is
\* numbered 1, 2, ... without gaps or duplicates: /start without a move leaves
\* it empty, /start with a move leaves one entry numbered 1 played by the
\* initiator, who is white, and every move played appends one entry numbered
\* one more than the maximum before.
C32_SequentialNumbers ==
    [][/\ \A g \in 1..Len(moves') : Sequential(moves'[g])
       /\ \A p \in Procs : Completes(p, "start") =>
             LET g == loc[p].game_id IN
             /\ loc[p].mv = "" => moves'[g] = <<>>
             /\ loc[p].mv # "" =>
                   /\ Len(moves'[g]) = 1
                   /\ moves'[g][1].move_number = 1
                   /\ moves'[g][1].played_by = games'[g].white_user_id
                   /\ moves'[g][1].played_by = loc[p].player
       /\ \A p \in Procs : CommitsMove(p) =>
             LET g == loc[p].game_id IN
             /\ Len(moves'[g]) = Len(moves[g]) + 1
             /\ SubSeq(moves'[g], 1, Len(moves[g])) = moves[g]
             /\ moves'[g][Len(moves'[g])].move_number
                   = MaxNat({moves[g][i].move_number : i \in 1..Len(moves[g])}) + 1]_vars

\* C32 witness: a session started with a first move has a second move in its
\* log
C32_Witness ==
    \E g \in GameIds : /\ Len(moves[g]) = 2
                       /\ moves[g][1].played_by = games[g].white_user_id
                       /\ moves[g][2].played_by = games[g].black_user_id

\* The Finished sessions of gs with result `result` in which user id plays
\* `colour`
FinishedAs(gs, id, colour, result) ==
    Cardinality({g \in 1..Len(gs) : /\ gs[g].status = "finished"
                                    /\ gs[g].result = result
                                    /\ gs[g][colour] = id})

\* The row of a user without its counters
Uncounted(row) == [row EXCEPT !.wins = 0, !.losses = 0, !.draws = 0]

\* C33: the statistics update adds a win to white and a loss to black for
\* 1-0, a win to black and a loss to white for 0-1, a draw to each for
\* 1/2-1/2, and changes nothing else; with updates handled one at a time the
\* counters of every user equal the numbers of Finished sessions the user won,
\* lost and drew.
C33_CountersMatchResults ==
    [][/\ \A p \in Procs :
             (pc[p] \in {"stats_first", "stats_second"} /\ pc'[p] # pc[p]) =>
                /\ games' = games /\ moves' = moves
                /\ Len(users') = Len(users)
                /\ \A id \in 1..Len(users) : Uncounted(users'[id]) = Uncounted(users[id])
       /\ (\A p \in Procs : pc'[p] = "idle") =>
             \A id \in 1..Len(users') :
                /\ users'[id].wins = FinishedAs(games', id, "white_user_id", "1-0")
                                       + FinishedAs(games', id, "black_user_id", "0-1")
                /\ users'[id].losses = FinishedAs(games', id, "white_user_id", "0-1")
                                         + FinishedAs(games', id, "black_user_id", "1-0")
                /\ users'[id].draws = FinishedAs(games', id, "white_user_id", "1/2-1/2")
                                        + FinishedAs(games', id, "black_user_id", "1/2-1/2")]_vars

\* C33 witness: a session has been won by white and its handler has returned
C33_Witness ==
    \E g \in GameIds : /\ games[g].status = "finished"
                       /\ games[g].result = "1-0"
                       /\ users[games[g].white_user_id].wins = 1
                       /\ users[games[g].black_user_id].losses = 1
                       /\ \A p \in Procs : pc[p] = "idle"

\* ---- Eviction with removals that fail ----

\* C34: a removal that fails does not end an eviction pass: the file stays
\* and is not counted as freed, and the files that can be removed go on being
\* removed oldest first until the total is at most 80% of the budget or none
\* is left.
C34_FailedRemovalSkipped ==
    [][(/\ call'.done /\ ~call'.hit /\ call'.render_ok /\ call'.scanned
        /\ CalculateCacheSize(files) > MaxSizeBytes
        /\ call'.undeletable # {}) =>
          LET removable == Stored(files) \ call'.undeletable
              written == GetCachePath(call'.board, call'.flip_board)
          IN  /\ call'.evicted \subseteq removable
              /\ \A u \in call'.undeletable \ {written} : files'[u] = files[u]
              /\ \A a \in call'.evicted :
                    /\ (Older(files, a) \cap removable) \subseteq call'.evicted
                    /\ CalculateCacheSize(Without(files, Older(files, a) \cap removable)) * 100
                          > MaxSizeBytes * EvictionTargetPercent
              /\ removable \ call'.evicted # {} =>
                    CalculateCacheSize(Without(files, call'.evicted)) * 100
                       <= MaxSizeBytes * EvictionTargetPercent]_vars

\* C34 witness: the file written by the first call, older than any other,
\* could not be removed and the pass went on to remove newer ones
C34_Witness ==
    /\ call.done /\ ~call.hit /\ call.scanned
    /\ call.evicted # {}
    /\ \E u \in call.undeletable :
          /\ files[u].exists
          /\ files[u].mtime = 1

\* ---- Routing ----

\* The name after the @ in the first token of a command, <<>> when the text
\* is no command or has no @ there
BotSuffix(text) ==
    LET tokens == SplitWhitespace(text)
        first == IF tokens = <<>> THEN <<>> ELSE tokens[1]
        at_pos == Find(first, "@")
    IN  IF first # <<>> /\ first[1] = "/" /\ at_pos > 0
        THEN SubSeq(first, at_pos + 1, Len(first))
        ELSE <<>>

\* The handler call may change a session: every handler but handle_move on a
\* text without a move candidate, which returns before anything is written
Executes(routed) ==
    \/ routed.handler \in {"handle_start_game", "handle_resign", "handle_draw_proposal",
                           "handle_accept_draw"}
    \/ routed.handler = "handle_move" /\ ExtractMoveFromText(routed.text) # <<>>

\* C35: a resignation, draw proposal, acceptance or move is dispatched only
\* for a message of a non-bot that replies to a message of a bot; a command
\* that names a bot after @ is executed only when the name is this bot's
\* username, letter case aside; a reply /resign@otherbot, /draw@otherbot or
\* /accept@otherbot changes no session.
C35_RoutingGate ==
    router.routed # NoRouting =>
        /\ router.routed.handler \in {"handle_resign", "handle_draw_proposal",
                                      "handle_accept_draw", "handle_move"}
              => (~router.from_is_bot /\ router.replied_to_bot)
        /\ (BotSuffix(router.text) # <<>> /\ Executes(router.routed))
              => EqIgnoreAsciiCase(BotSuffix(router.text), BotUsername)
        /\ router.text \in {<<"/", "r", "e", "s", "i", "g", "n", "@", "o", "t", "h", "e", "r", "b", "o", "t">>, <<"/", "d", "r", "a", "w", "@", "o", "t", "h", "e", "r", "b", "o", "t">>, 
                            <<"/", "a", "c", "c", "e", "p", "t", "@", "o", "t", "h", "e", "r", "b", "o", "t">>} => ~Executes(router.routed)

\* ---- The session record ----

\* C36: with updates handled one at a time the row of a session is
\* consistent in every state: Finished comes with a result 1-0, 0-1 or
\* 1/2-1/2 and no pending proposal, Ongoing with no result, a pending
\* proposer is one of the two participants, and the participants are two
\* different users that never change.
C36_RecordConsistent ==
    [][\A g \in 1..Len(games') :
          LET row == games'[g] IN
          /\ row.status \in {"ongoing", "finished"}
          /\ row.status = "finished" =>
                (row.result \in {"1-0", "0-1", "1/2-1/2"} /\ row.draw_proposed_by = NULL)
          /\ row.status = "ongoing" => row.result = NoResult
          /\ row.draw_proposed_by # NULL =>
                row.draw_proposed_by \in {row.white_user_id, row.black_user_id}
          /\ row.white_user_id # row.black_user_id
          /\ {row.white_user_id, row.black_user_id} \subseteq 1..Len(users')
          /\ g \in GameIds =>
                /\ row.white_user_id = games[g].white_user_id
                /\ row.black_user_id = games[g].black_user_id]_vars

\* C36 witness: a session with a pending proposal has been finished by the
\* resignation of the proposer
C36_Witness ==
    \E p \in Procs : /\ pc[p] = "stats_first"
                     /\ loc[p].op = "resign"
                     /\ loc[p].game.draw_proposed_by = loc[p].player
                     /\ games[loc[p].game_id].status = "finished"

\* ---- Concurrent handlers and a Finished session ----

\* Task p runs the statements that follow its own update_game_result
Finisher(p) ==
    pc[p] \in {"stats_first", "stats_second", "move_fen"} /\ loc[p].result # ""

\* C37: under any interleaving of concurrent handlers for one session, once
\* the session is Finished no handler other than the one that finished it
\* writes its position, its move log, its proposal or its result.
C37_NoWriteAfterFinished ==
    [][\A p \in Procs :
          (/\ loc[p].game_id \in GameIds
           /\ pc'[p] # pc[p]
           /\ games[loc[p].game_id].status = "finished"
           /\ ~Finisher(p)) =>
              LET before == games[loc[p].game_id]
                  after == games'[loc[p].game_id]
              IN  /\ after.current_fen = before.current_fen
                  /\ after.turn = before.turn
                  /\ after.draw_proposed_by = before.draw_proposed_by
                  /\ after.result = before.result
                  /\ after.status = before.status
                  /\ moves'[loc[p].game_id] = moves[loc[p].game_id]]_vars

\* ---- The move log and the stored position ----

\* The position reached from the initial one by the moves of log in the order
\* of their numbers, moves of equal number in the order of insertion
RECURSIVE Replay(_)
Replay(log) ==
    IF log = <<>> THEN DefaultBoard
    ELSE LET last == CHOOSE i \in 1..Len(log) :
                        \A j \in 1..Len(log) :
                           \/ log[j].move_number < log[i].move_number
                           \/ log[j].move_number = log[i].move_number /\ j <= i
             rest == [k \in 1..(Len(log) - 1) |-> IF k < last THEN log[k] ELSE log[k + 1]]
         IN  MakeMoveNew(Replay(rest), log[last].uci)

\* C38: whenever no handler is in flight, also after concurrent moves, the
\* moves of a session's log replayed from the initial position give the
\* position stored in its row.
C38_LogReplaysToPosition ==
    (\A p \in Procs : pc[p] = "idle") =>
        \A g \in GameIds : Replay(moves[g]) = games[g].current_fen

\* ---- Addressable sessions ----

\* C39: whenever no handler is in flight, also after a /start that failed on
\* its first board message, every Ongoing session has a board message whose
\* replies are routed to it, so that its participants can end it and start
\* anew.
C39_OngoingAddressable ==
    (\A p \in Procs : pc[p] = "idle") =>
        \A g \in GameIds : games[g].status = "ongoing" => Addressed(g)

\* ---- Concurrent calls of the cache ----

\* C40: when calls of get_or_create run at the same time, also for the same
\* position and orientation, each returns the complete image: none returns
\* as a hit a file that another call has only partly written.
C40_CompleteImage ==
    \A t \in Procs :
        threads[t].pc = "returned" =>
            /\ threads[t].res.ok
            /\ threads[t].res.bytes = Render(threads[t].board, threads[t].flip_board)

====
